---- MODULE Spec2Model ----
(***************************************************************************)
(* Model of _stbt/core.py: the Display class (frame delivery between the   *)
(* GLib main-loop thread and the user thread, and the source-pipeline      *)
(* recovery machinery with its GObjectTimeout timers).                     *)
(*                                                                         *)
(* Two threads are modelled, each with a program counter:                  *)
(*   gpc  the GLib main-loop thread running one callback at a time,        *)
(*   upc  the user (test script) thread: __enter__, get_frame, __exit__.   *)
(* Time is a discrete wall clock `now` in seconds.                         *)
(***************************************************************************)
EXTENDS Integers, FiniteSets, Sequences, TLC

\* ------------------------------------------------------------------ bounds
MaxTime == 9
MaxPipelines == 3
MaxTimerIds == 4
MaxBurst == 2
MaxFrameTime == 4

\* ------------------------------------------------------- program constants
UnderrunDelay == 2
RestartDelay == 5

VARIABLES
    now,                     \* time.time(), whole seconds
    last_frame,              \* self.last_frame: None, a Frame or an Exception
    last_used_frame,         \* self.last_used_frame
    cond_owner,              \* holder of self._condition's lock
    source_pipeline,         \* self.source_pipeline: 0 is None, else a pipeline id
    pipe_state,              \* Gst state of every pipeline instance
    underrun_timeout,        \* self.underrun_timeout (a GObjectTimeout or None)
    glib_timers,             \* timeouts pending in the GLib main loop
    tearing_down,            \* self.tearing_down
    restart_source_enabled,  \* self.restart_source_enabled
    source_teardown_eos,     \* self.source_teardown_eos
    gpc,                     \* position of the GLib thread
    g_handler,               \* the callback the GLib thread is running
    g_item,                  \* tell_user_thread's frame_or_exception
    g_error,                 \* exception that ended the last GLib callback
    upc,                     \* position of the user thread
    u_end_time,              \* get_frame: end_time
    u_since,                 \* get_frame: since
    u_result,                \* how the last get_frame call ended
    x_source,                \* __exit__: the local `source`
    burst,                   \* history: underrun signals in the latest debounce window
    h_window,                \* history: what became of the timer on_underrun armed
    h_good,                  \* history: did the cell hold a usable value during the call
    h_pub_blocked,           \* history: a qualifying frame was published while blocked
    h_err_blocked,           \* history: an error was published while blocked
    \* ---- _find_matches (the generator and the locals it keeps between yields)
    image,                   \* image.shape: [h, w]
    template,                \* template.shape and dtype: [h, w, ndim, channels, dtype]
    match_parameters,        \* match_method, match_threshold, confirm_method
    levels,                  \* get_config("match", "pyramid_levels")
    matchTemplate,           \* what cv2.matchTemplate returns at each pyramid level
    countNonZero,            \* per position: is cv2.countNonZero(eroded) == 0
    fm_pc,                   \* position of the generator
    fm_error,                \* the exception that ended it
    heatmap,                 \* _find_candidate_matches: heatmap
    level,                   \* _find_candidate_matches: level
    threshold,               \* _find_candidate_matches: threshold
    matched,                 \* _find_candidate_matches: matched
    region,                  \* _find_candidate_matches: region
    certainty,               \* _find_candidate_matches: certainty
    fm_i,                    \* _find_candidate_matches: i, counted modulo MaxResults + 1
    results,                 \* history: the tuples yielded so far, latest last
    \* ---- mask.py
    mask_heap,               \* the Mask objects made so far
    mask_shape,              \* the shape asked of to_array
    region_a,                \* a Region to build masks from
    region_b,                \* another
    mask_image,              \* an image to build masks from
    mask_out,                \* the latest to_array call and what it returned
    mask_repr,               \* the latest repr call and what it returned
    \* ---- SinkPipeline
    sink_upc,                \* position of the user thread in the SinkPipeline
    sink_gpc,                \* position of the thread that delivers samples
    sink_state,              \* Gst state of self.sink_pipeline
    _frames,                 \* self._frames, leftmost first; a frame is [id, time]
    sink_now,                \* on_sample: now
    sink_arrived,            \* how many samples on_sample has been given
    sink_last_time,          \* the timestamp of the latest of them
    _sample_count,           \* self._sample_count
    annotations,             \* self.annotations, each [id, time]
    text_annotations,        \* self.text_annotations, each [time, end_time]
    received_eos,            \* self.received_eos
    sink_eos,                \* __exit__: "none", "sent", "failed" or "skipped"
    sink_log,                \* the debug messages of __exit__
    h_pushed,                \* history: the frame pushed last
    h_in_order,              \* history: every push followed an older or equal frame
    h_discarded,             \* history: a frame left the deque without a push
    h_drawn,                 \* history: per annotation, the frames it was drawn on
    \* ---- wait_until
    wu_pc,                   \* position in wait_until
    wu_args,                 \* timeout_secs, interval_secs, predicate, stable_secs
    wu_time,                 \* time.time()
    stable_value,            \* wait_until: stable_value
    stable_predicate_value,  \* wait_until: stable_predicate_value
    stable_since,            \* wait_until: stable_since ({} while unassigned)
    expiry_time,             \* wait_until: expiry_time
    wu_result,               \* what wait_until returned, and on which path
    h_calls,                 \* history: the calls of callable_, each [t, value, predicate_value]
    \* ---- wait_for_match, detect_match and frames
    wfm_pc,                  \* position in wait_for_match
    wfm_args,                \* timeout_secs, consecutive_matches, use_old_threading_behaviour
    wfm_time,                \* self._time.time()
    frames_end_time,         \* frames: end_time
    frames_timestamp,        \* frames: timestamp (None before the first frame)
    frames_first,            \* frames: first
    _last_grabbed_frame_time, \* self._last_grabbed_frame_time
    match_count,             \* wait_for_match: match_count
    last_pos,                \* wait_for_match: last_pos
    res,                     \* wait_for_match: res (unbound before the first result)
    wfm_result,              \* how wait_for_match ended
    h_checked,               \* history: the results of the frames checked, latest last
    \* ---- _build_pyramid
    bp_pc,                   \* "new" before the call, "done" after it
    bp_image,                \* the image argument: its shape [h, w]
    bp_levels,               \* the levels argument
    pyramid,                 \* the list returned: the shape of each level
    bp_template,             \* _find_candidate_matches: the template's shape [h, w]
    template_pyramid,        \* _find_candidate_matches: template_pyramid
    image_pyramid,           \* _find_candidate_matches: image_pyramid
    \* ---- press_until_match, press and pressing
    pum_pc,                  \* position in press_until_match
    pum_args,                \* key, interval_secs, max_presses
    pum_i,                   \* press_until_match: i
    pum_result,              \* how press_until_match ended
    h_pum,                   \* history: the wait_for_match calls and presses, in order
    press_calls,             \* number of press / pressing calls made
    press_last,              \* the latest press / pressing call, what raised before the key-up, how it ended
    h_control                \* history: what the remote control was asked to send

match_vars == <<image, template, match_parameters, levels, matchTemplate,
                countNonZero, fm_pc, fm_error, heatmap, level, threshold,
                matched, region, certainty, fm_i, results>>

\* everything that is not a field of Display
mask_vars == <<mask_heap, mask_shape, region_a, region_b, mask_image, mask_out,
               mask_repr>>

sink_vars == <<sink_upc, sink_gpc, sink_state, _frames, sink_now, sink_arrived,
               sink_last_time, _sample_count, annotations, text_annotations,
               received_eos, sink_eos, sink_log, h_pushed, h_in_order,
               h_discarded, h_drawn>>

wait_vars == <<wu_pc, wu_args, wu_time, stable_value, stable_predicate_value,
               stable_since, expiry_time, wu_result, h_calls>>

wfm_vars == <<wfm_pc, wfm_args, wfm_time, frames_end_time, frames_timestamp, frames_first,
              _last_grabbed_frame_time, match_count, last_pos, res, wfm_result,
              h_checked>>

pyramid_vars == <<bp_pc, bp_image, bp_levels, pyramid, bp_template, template_pyramid,
                  image_pyramid>>

\* the state outside the display and the matching engine
press_vars == <<pum_pc, pum_args, pum_i, pum_result, h_pum, press_calls, press_last,
                h_control>>

api_vars == <<sink_vars, wait_vars, wfm_vars, pyramid_vars, press_vars>>

engine_vars == <<match_vars, mask_vars, api_vars>>

vars == <<now, last_frame, last_used_frame, cond_owner, source_pipeline,
          pipe_state, underrun_timeout, glib_timers, tearing_down,
          restart_source_enabled, source_teardown_eos, gpc, g_handler, g_item,
          g_error, upc, u_end_time, u_since, u_result, x_source, burst,
          h_window, h_good, h_pub_blocked, h_err_blocked, engine_vars>>

frame_vars == <<last_frame, last_used_frame, cond_owner, g_item, u_end_time,
                u_since, u_result, h_good, h_pub_blocked, h_err_blocked>>

source_vars == <<source_pipeline, pipe_state, underrun_timeout, glib_timers,
                 tearing_down, x_source, burst, h_window, g_error>>

config_vars == <<restart_source_enabled, source_teardown_eos>>

display_vars == <<now, frame_vars, source_vars, config_vars, gpc, g_handler, upc>>

\* ------------------------------------------------------------------ values
NoneFrame == [kind |-> "none", time |-> 0]
ExceptionValue == [kind |-> "exc", time |-> 0]
Frame(ts) == [kind |-> "frame", time |-> ts]

NoTimeout == [set |-> FALSE, timeout_id |-> 0]

Pipelines == 1..MaxPipelines

Timeouts == {1, 2}
SinceArgs == [is_none : {TRUE}, value : {0}] \cup [is_none : {FALSE}, value : 0..2]

\* isinstance(self.last_frame, Frame) and self.last_frame.time > since
QualifiesStale(f, since) == f.kind = "frame" /\ f.time >= since
Qualifies(f, since) == f.kind = "frame" /\ f.time > since

\* isinstance(self.last_frame, Exception)
IsException(f) == f.kind = "exc"

Good(f, since) == Qualifies(f, since) \/ IsException(f)

AnyPlaying == \E p \in Pipelines : pipe_state[p] = "PLAYING"

TimersFor(h) == {tm \in glib_timers : tm.handler = h}

\* GObject.timeout_add returns an id no pending source and no live reference has
FreshTimerId ==
    CHOOSE i \in 1..MaxTimerIds :
        /\ i \notin {tm.id : tm \in glib_timers} \cup {underrun_timeout.timeout_id}
        /\ \A j \in 1..(i - 1) :
              j \in {tm.id : tm \in glib_timers} \cup {underrun_timeout.timeout_id}

\* ------------------------------------------------------------------- Init
InitDisplay ==
    /\ now = 0
    /\ last_frame = NoneFrame
    /\ last_used_frame = NoneFrame
    /\ cond_owner = "none"
    /\ source_pipeline = 1
    /\ pipe_state = [p \in Pipelines |-> IF p = 1 THEN "READY" ELSE "absent"]
    /\ underrun_timeout = NoTimeout
    /\ glib_timers = {}
    /\ tearing_down = FALSE
    /\ restart_source_enabled \in BOOLEAN
    /\ source_teardown_eos \in BOOLEAN
    /\ gpc = "idle"
    /\ g_handler = "none"
    /\ g_item = NoneFrame
    /\ g_error = "none"
    /\ upc = "new"
    /\ u_end_time = 0
    /\ u_since = 0
    /\ u_result = "none"
    /\ x_source = 0
    /\ burst = 0
    /\ h_window = "none"
    /\ h_good = "no"
    /\ h_pub_blocked = FALSE
    /\ h_err_blocked = FALSE

\* no _find_matches call has been made
MatchIdle ==
    /\ image = [h |-> 1, w |-> 1]
    /\ template = [h |-> 1, w |-> 1, ndim |-> 3, channels |-> 3, dtype |-> "uint8"]
    /\ match_parameters = [match_method |-> "sqdiff-normed", match_threshold |-> 0,
                           confirm_method |-> "none"]
    /\ levels = 1
    /\ matchTemplate = <<>>
    /\ countNonZero = <<>>
    /\ fm_pc = "none"
    /\ fm_error = "none"
    /\ heatmap = <<>>
    /\ level = 0
    /\ threshold = 0
    /\ matched = FALSE
    /\ region = [x |-> 0, y |-> 0, right |-> 0, bottom |-> 0]
    /\ certainty = 0
    /\ fm_i = 0
    /\ results = <<>>

\* no Mask has been made
MaskIdle ==
    /\ mask_heap = <<>>
    /\ mask_shape = <<1, 1, 1>>
    /\ region_a = [x |-> 0, y |-> 0, right |-> 1, bottom |-> 1]
    /\ region_b = [x |-> 0, y |-> 0, right |-> 1, bottom |-> 1]
    /\ mask_image = [shape |-> <<1, 1, 1>>, data |-> [p \in {<<0, 0>>} |-> 255]]
    /\ mask_out = [self |-> 0, shape |-> <<0, 0, 0>>, out |-> {}]
    /\ mask_repr = [self |-> 0, text |-> <<>>]

\* SinkPipeline.__init__
SinkIdle ==
    /\ sink_upc = "new"
    /\ sink_gpc = "idle"
    /\ sink_state = "NULL"
    /\ _frames = <<>>
    /\ sink_now = 0
    /\ sink_arrived = 0
    /\ sink_last_time = 0
    /\ _sample_count = 0
    /\ annotations = <<>>
    /\ text_annotations = <<>>
    /\ received_eos = FALSE
    /\ sink_eos = "none"
    /\ sink_log = {}
    /\ h_pushed = [id |-> 0, time |-> 0]
    /\ h_in_order = TRUE
    /\ h_discarded = FALSE
    /\ h_drawn = <<>>

\* wait_until has not been called
WaitIdle ==
    /\ wu_pc = "idle"
    /\ wu_args = [timeout_secs |-> 0, interval_secs |-> 0, predicate |-> "None",
                  stable_secs |-> 0]
    /\ wu_time = 0
    /\ stable_value = -1
    /\ stable_predicate_value = -1
    /\ stable_since = {}
    /\ expiry_time = 0
    /\ wu_result = [path |-> "none", value |-> -1]
    /\ h_calls = <<>>

\* wait_for_match has not been called
WfmIdle ==
    /\ wfm_pc = "idle"
    /\ wfm_args = [image |-> "", timeout_secs |-> 0, consecutive_matches |-> 1,
                   use_old_threading_behaviour |-> FALSE]
    /\ wfm_time = 0
    /\ frames_end_time = 0
    /\ frames_timestamp = {}
    /\ frames_first = TRUE
    /\ _last_grabbed_frame_time = 0
    /\ match_count = 0
    /\ last_pos = 0
    /\ res = {}
    /\ wfm_result = [kind |-> "none", res |-> {}, screenshot |-> {}, expected |-> "",
                     timeout_secs |-> 0]
    /\ h_checked = <<>>

\* _build_pyramid is not under study
PyramidIdle ==
    /\ bp_pc = "idle"
    /\ bp_image = [h |-> 1, w |-> 1]
    /\ bp_levels = 1
    /\ pyramid = <<>>
    /\ bp_template = [h |-> 1, w |-> 1]
    /\ template_pyramid = <<>>
    /\ image_pyramid = <<>>

\* no key has been pressed
PressIdle ==
    /\ pum_pc = "idle"
    /\ pum_args = [key |-> "", interval_secs |-> 0, max_presses |-> 0]
    /\ pum_i = 0
    /\ pum_result = "none"
    /\ h_pum = <<>>
    /\ press_calls = 0
    /\ press_last = [op |-> "none", key |-> "", hold_secs |-> 0, fails |-> {},
                     events |-> <<>>, exc |-> "none"]
    /\ h_control = <<>>

ApiIdle == SinkIdle /\ WaitIdle /\ WfmIdle /\ PyramidIdle /\ PressIdle

Init == InitDisplay /\ ApiIdle /\ MatchIdle /\ MaskIdle

\* ------------------------------------------------------------------ clock
\* Time passes unless a GLib timeout is due: the main loop dispatches it first.
Tick ==
    /\ now < MaxTime
    /\ \A tm \in glib_timers : tm.due > now
    /\ now' = now + 1
    /\ UNCHANGED <<frame_vars, source_vars, config_vars, engine_vars, gpc, g_handler, upc>>

\* ------------------------------------------------------- Display.__enter__
Display_enter ==
    /\ upc = "new"
    /\ pipe_state' = [pipe_state EXCEPT ![source_pipeline] = "PLAYING"]
    /\ upc' = "idle"
    /\ UNCHANGED <<now, frame_vars, source_pipeline, underrun_timeout,
                   glib_timers, tearing_down, x_source, burst, h_window, g_error,
                   config_vars, engine_vars, gpc, g_handler>>

\* ------------------------------------------------------- Display.get_frame
GoodNow(f, since, end_time) ==
    IF Good(f, since) THEN (IF now <= end_time THEN "window" ELSE "late") ELSE "no"

get_frame_call ==
    /\ upc = "idle"
    /\ \E timeout_secs \in Timeouts, since \in SinceArgs :
          /\ now + timeout_secs < MaxFrameTime
          /\ u_end_time' = now + timeout_secs
          /\ u_since' = IF since.is_none THEN now - timeout_secs ELSE since.value
          /\ h_good' = GoodNow(last_frame, u_since', u_end_time')
    /\ h_pub_blocked' = FALSE
    /\ h_err_blocked' = FALSE
    /\ u_result' = "none"
    /\ upc' = "gf_acquire"
    /\ UNCHANGED <<now, last_frame, last_used_frame, cond_owner, g_item,
                   source_vars, config_vars, engine_vars, gpc, g_handler>>

\* with self._condition: (and the re-acquisition that ends _condition.wait)
get_frame_acquire ==
    /\ upc \in {"gf_acquire", "gf_reacquire"}
    /\ cond_owner = "none"
    /\ cond_owner' = "user"
    /\ upc' = "gf_check"
    /\ UNCHANGED <<now, last_frame, last_used_frame, g_item, u_end_time, u_since,
                   u_result, h_good, h_pub_blocked, h_err_blocked, source_vars, config_vars, engine_vars,
                   gpc, g_handler>>

\* a plausible slip: the loop forgets the isinstance(..., Exception) branch
get_frame_check_ignores_error ==
    /\ upc = "gf_check"
    /\ IF Qualifies(last_frame, u_since)
       THEN /\ last_used_frame' = last_frame
            /\ u_result' = "frame"
            /\ cond_owner' = "none"
            /\ upc' = "gf_done"
       ELSE /\ upc' = "gf_time"
            /\ UNCHANGED <<last_used_frame, u_result, cond_owner>>
    /\ UNCHANGED <<now, last_frame, g_item, u_end_time, u_since, h_good,
                   h_pub_blocked, h_err_blocked, source_vars, config_vars, engine_vars, gpc, g_handler>>

\* the body of `while True:` up to the time check
get_frame_check ==
    /\ upc = "gf_check"
    /\ IF Qualifies(last_frame, u_since)
       THEN /\ last_used_frame' = last_frame
            /\ u_result' = "frame"
            /\ cond_owner' = "none"
            /\ upc' = "gf_done"
       ELSE IF IsException(last_frame)
       THEN /\ u_result' = "RuntimeError"
            /\ cond_owner' = "none"
            /\ upc' = "gf_done"
            /\ UNCHANGED last_used_frame
       ELSE /\ upc' = "gf_time"
            /\ UNCHANGED <<last_used_frame, u_result, cond_owner>>
    /\ UNCHANGED <<now, last_frame, g_item, u_end_time, u_since, h_good,
                   h_pub_blocked, h_err_blocked, source_vars, config_vars, engine_vars, gpc, g_handler>>

\* a plausible slip: the loop never breaks on the deadline
get_frame_time_no_break ==
    /\ upc = "gf_time"
    /\ upc' = "gf_wait"
    /\ cond_owner' = "none"
    /\ UNCHANGED <<now, last_frame, last_used_frame, g_item, u_end_time, u_since,
                   u_result, h_good, h_pub_blocked, h_err_blocked, source_vars, config_vars, engine_vars, gpc,
                   g_handler>>

\* t = time.time(); if t > end_time: break; self._condition.wait(end_time - t)
get_frame_time ==
    /\ upc = "gf_time"
    /\ IF now > u_end_time
       THEN /\ u_result' = "NoVideo"
            /\ upc' = "gf_done"
       ELSE /\ upc' = "gf_wait"
            /\ UNCHANGED u_result
    /\ cond_owner' = "none"
    /\ UNCHANGED <<now, last_frame, last_used_frame, g_item, u_end_time, u_since,
                   h_good, h_pub_blocked, h_err_blocked, source_vars, config_vars, engine_vars, gpc,
                   g_handler>>

\* _condition.wait(end_time - t) returns because its timeout has elapsed
get_frame_wait_timeout ==
    /\ upc = "gf_wait"
    /\ now >= u_end_time
    /\ upc' = "gf_reacquire"
    /\ UNCHANGED <<now, frame_vars, source_vars, config_vars, engine_vars, gpc, g_handler>>

\* the caller takes the frame or the exception
get_frame_return ==
    /\ upc = "gf_done"
    /\ upc' = "idle"
    /\ UNCHANGED <<now, frame_vars, source_vars, config_vars, engine_vars, gpc, g_handler>>

\* --------------------------------------------------- Display.on_new_sample
SampleTimes == {t \in {now - 1, now} : t >= 0}

on_new_sample ==
    /\ gpc = "idle"
    /\ AnyPlaying
    /\ \E ts \in SampleTimes : g_item' = Frame(ts)
    /\ g_handler' = "on_new_sample"
    /\ gpc' = "tell_acquire"
    /\ UNCHANGED <<now, last_frame, last_used_frame, cond_owner, u_end_time,
                   u_since, u_result, h_good, h_pub_blocked, h_err_blocked, source_vars,
                   config_vars, engine_vars, upc>>

\* -------------------------------------------------------- Display.on_error
on_error ==
    /\ gpc = "idle"
    /\ AnyPlaying
    /\ g_item' = ExceptionValue
    /\ g_handler' = "on_error"
    /\ gpc' = "tell_acquire"
    /\ UNCHANGED <<now, last_frame, last_used_frame, cond_owner, u_end_time,
                   u_since, u_result, h_good, h_pub_blocked, h_err_blocked, source_vars,
                   config_vars, engine_vars, upc>>

\* ------------------------------------------------ Display.tell_user_thread
\* a plausible slip: writing the cell without taking the lock
tell_user_thread_no_lock ==
    /\ gpc = "tell_acquire"
    /\ gpc' = "tell_write"
    /\ UNCHANGED <<now, frame_vars, source_vars, config_vars, engine_vars, g_handler, upc>>

\* with self._condition:
tell_user_thread_acquire ==
    /\ gpc = "tell_acquire"
    /\ cond_owner = "none"
    /\ cond_owner' = "glib"
    /\ gpc' = "tell_write"
    /\ UNCHANGED <<now, last_frame, last_used_frame, g_item, u_end_time, u_since,
                   u_result, h_good, h_pub_blocked, h_err_blocked, source_vars, config_vars, engine_vars,
                   g_handler, upc>>

InCall == upc \in {"gf_acquire", "gf_check", "gf_time", "gf_wait", "gf_reacquire"}

\* self.last_frame = frame_or_exception
tell_user_thread_write ==
    /\ gpc = "tell_write"
    /\ last_frame' = g_item
    /\ h_good' = IF InCall /\ h_good = "no"
                 THEN GoodNow(g_item, u_since, u_end_time) ELSE h_good
    /\ h_pub_blocked' = (h_pub_blocked \/ (/\ upc = "gf_wait"
                                           /\ now < u_end_time
                                           /\ Qualifies(g_item, u_since)))
    /\ h_err_blocked' = (h_err_blocked \/ (upc = "gf_wait" /\ IsException(g_item)))
    /\ gpc' = "tell_notify"
    /\ UNCHANGED <<now, last_used_frame, cond_owner, g_item, u_end_time, u_since,
                   u_result, source_vars, config_vars, engine_vars, g_handler, upc>>

\* a plausible slip: leaving the with-block without notify_all
tell_user_thread_no_notify ==
    /\ gpc = "tell_notify"
    /\ cond_owner' = "none"
    /\ gpc' = "idle"
    /\ g_handler' = "none"
    /\ UNCHANGED <<now, last_frame, last_used_frame, g_item, u_end_time, u_since,
                   u_result, h_good, h_pub_blocked, h_err_blocked, source_vars, config_vars, engine_vars, upc>>

\* self._condition.notify_all(), then the with-block releases the lock
tell_user_thread_notify ==
    /\ gpc = "tell_notify"
    /\ upc' = IF upc = "gf_wait" THEN "gf_reacquire" ELSE upc
    /\ cond_owner' = "none"
    /\ gpc' = "idle"
    /\ g_handler' = "none"
    /\ UNCHANGED <<now, last_frame, last_used_frame, g_item, u_end_time, u_since,
                   u_result, h_good, h_pub_blocked, h_err_blocked, source_vars, config_vars, engine_vars>>

NextFrame ==
    \/ (now < MaxFrameTime /\ Tick)
    \/ Display_enter
    \/ get_frame_call
    \/ get_frame_acquire
    \/ get_frame_check
    \/ get_frame_time
    \/ get_frame_wait_timeout
    \/ get_frame_return
    \/ on_new_sample
    \/ on_error
    \/ tell_user_thread_acquire
    \/ tell_user_thread_write
    \/ tell_user_thread_notify

InitFrame == Init /\ ~restart_source_enabled /\ ~source_teardown_eos

SpecFrame == InitFrame /\ [][NextFrame]_vars


\* ---------------------------------------------------------- GObjectTimeout
\* a plausible slip: cancel() forgets GObject.source_remove
GObjectTimeout_cancel_keeps(timers, timeout_id) == timers

\* GObjectTimeout.cancel: if self.timeout_id: GObject.source_remove(self.timeout_id)
GObjectTimeout_cancel(timers, timeout_id) ==
    IF timeout_id # 0 THEN {tm \in timers : tm.id # timeout_id} ELSE timers

\* GObjectTimeout.start: GObject.timeout_add(self.timeout_secs * 1000, self.handler)
GObjectTimeout_start(timers, id, handler, timeout_secs) ==
    timers \cup {[id |-> id, handler |-> handler, due |-> now + timeout_secs]}

\* ---------------------------------------- Display.on_eos_from_source_pipeline
on_eos_from_source_pipeline ==
    /\ gpc = "idle"
    /\ AnyPlaying
    /\ IF ~tearing_down
       THEN /\ gpc' = "rs_stop"
            /\ g_handler' = "on_eos"
       ELSE UNCHANGED <<gpc, g_handler>>
    /\ UNCHANGED <<now, frame_vars, source_vars, config_vars, engine_vars, upc>>

\* ----------------------------------------------------- Display.on_underrun
\* a plausible slip: arming a timer on every underrun signal
on_underrun_always_arms ==
    /\ gpc = "idle"
    /\ restart_source_enabled
    /\ AnyPlaying
    /\ Cardinality(glib_timers) < MaxTimerIds - 1
    /\ underrun_timeout' = [set |-> TRUE, timeout_id |-> FreshTimerId]
    /\ glib_timers' = GObjectTimeout_start(glib_timers, FreshTimerId,
                                           "restart_source", UnderrunDelay)
    /\ burst' = IF burst < MaxBurst THEN burst + 1 ELSE burst
    /\ h_window' = "open"
    /\ UNCHANGED <<now, frame_vars, source_pipeline, pipe_state, tearing_down,
                   x_source, g_error, config_vars, engine_vars, gpc, g_handler, upc>>

on_underrun ==
    /\ gpc = "idle"
    /\ restart_source_enabled
    /\ AnyPlaying
    /\ IF underrun_timeout.set
       THEN /\ burst' = IF h_window = "open" /\ burst < MaxBurst
                         THEN burst + 1 ELSE burst
            /\ UNCHANGED <<underrun_timeout, glib_timers, h_window>>
       ELSE /\ underrun_timeout' = [set |-> TRUE, timeout_id |-> FreshTimerId]
            /\ glib_timers' = GObjectTimeout_start(glib_timers, FreshTimerId,
                                                   "restart_source", UnderrunDelay)
            /\ burst' = 1
            /\ h_window' = "open"
    /\ UNCHANGED <<now, frame_vars, source_pipeline, pipe_state, tearing_down,
                   x_source, g_error, config_vars, engine_vars, gpc, g_handler, upc>>

\* ------------------------------------------------------ Display.on_running
on_running ==
    /\ gpc = "idle"
    /\ restart_source_enabled
    /\ AnyPlaying
    /\ IF underrun_timeout.set
       THEN /\ glib_timers' = GObjectTimeout_cancel(glib_timers,
                                                    underrun_timeout.timeout_id)
            /\ underrun_timeout' = NoTimeout
            /\ h_window' = "cancelled"
            /\ UNCHANGED burst
       ELSE UNCHANGED <<underrun_timeout, glib_timers, burst, h_window>>
    /\ UNCHANGED <<now, frame_vars, source_pipeline, pipe_state, tearing_down,
                   x_source, g_error, config_vars, engine_vars, gpc, g_handler, upc>>

\* ------------------------------------------- the GLib main loop's timeouts
\* The main loop dispatches the timeout that became ready first and, as both
\* handlers return False (or raise), removes it.
timeout_dispatch ==
    /\ gpc = "idle"
    /\ \E tm \in glib_timers :
          /\ tm.due <= now
          /\ \A other \in glib_timers : other.due >= tm.due
          /\ glib_timers' = glib_timers \ {tm}
          /\ IF tm.handler = "restart_source"
             THEN /\ gpc' = "rs_stop"
                  /\ g_handler' = "restart_source"
                  /\ h_window' = IF h_window = "open" THEN "fired" ELSE h_window
             ELSE /\ gpc' = "ss_check"
                  /\ g_handler' = "start_source"
                  /\ UNCHANGED h_window
    /\ UNCHANGED burst
    /\ UNCHANGED <<now, frame_vars, source_pipeline, pipe_state, underrun_timeout,
                   tearing_down, x_source, g_error, config_vars, engine_vars, upc>>

\* -------------------------------------------------- Display.restart_source
\* self.source_pipeline.set_state(Gst.State.NULL)
restart_source_stop ==
    /\ gpc = "rs_stop"
    /\ IF source_pipeline = 0
       THEN /\ g_error' = "restart_source: None has no set_state"
            /\ gpc' = "idle"
            /\ g_handler' = "none"
            /\ UNCHANGED pipe_state
       ELSE /\ pipe_state' = [pipe_state EXCEPT ![source_pipeline] = "NULL"]
            /\ gpc' = "rs_clear"
            /\ UNCHANGED <<g_error, g_handler>>
    /\ UNCHANGED <<now, frame_vars, source_pipeline, underrun_timeout, glib_timers,
                   tearing_down, x_source, burst, h_window, config_vars, engine_vars, upc>>

\* self.source_pipeline = None
restart_source_clear ==
    /\ gpc = "rs_clear"
    /\ source_pipeline' = 0
    /\ gpc' = "rs_schedule"
    /\ UNCHANGED <<now, frame_vars, pipe_state, underrun_timeout, glib_timers,
                   tearing_down, x_source, burst, h_window, g_error, config_vars, engine_vars,
                   g_handler, upc>>

\* a plausible slip: restart_source stops the pipeline and schedules nothing
restart_source_no_schedule ==
    /\ gpc = "rs_schedule"
    /\ gpc' = "idle"
    /\ g_handler' = "none"
    /\ UNCHANGED <<now, frame_vars, source_vars, config_vars, engine_vars, upc>>

\* GObjectTimeout(5, self.start_source).start(); return False
restart_source_schedule ==
    /\ gpc = "rs_schedule"
    /\ glib_timers' = GObjectTimeout_start(glib_timers, FreshTimerId,
                                           "start_source", RestartDelay)
    /\ gpc' = "idle"
    /\ g_handler' = "none"
    /\ UNCHANGED <<now, frame_vars, source_pipeline, pipe_state, underrun_timeout,
                   tearing_down, x_source, burst, h_window, g_error, config_vars, engine_vars, upc>>

\* ---------------------------------------------------- Display.start_source
\* if self.tearing_down: return False
start_source_check ==
    /\ gpc = "ss_check"
    /\ IF tearing_down
       THEN /\ gpc' = "idle"
            /\ g_handler' = "none"
       ELSE /\ gpc' = "ss_create"
            /\ UNCHANGED g_handler
    /\ UNCHANGED <<now, frame_vars, source_vars, config_vars, engine_vars, upc>>

\* self.create_source_pipeline()
create_source_pipeline ==
    /\ gpc = "ss_create"
    /\ \E p \in Pipelines :
          /\ pipe_state[p] = "absent"
          /\ \A q \in 1..(p - 1) : pipe_state[q] # "absent"
          /\ source_pipeline' = p
          /\ pipe_state' = [pipe_state EXCEPT ![p] = "READY"]
    /\ gpc' = "ss_play"
    /\ UNCHANGED <<now, frame_vars, underrun_timeout, glib_timers, tearing_down,
                   x_source, burst, h_window, g_error, config_vars, engine_vars, g_handler, upc>>

\* self.set_source_pipeline_playing()
set_source_pipeline_playing ==
    /\ gpc = "ss_play"
    /\ IF source_pipeline = 0
       THEN /\ g_error' = "set_source_pipeline_playing: None has no set_state"
            /\ gpc' = "idle"
            /\ g_handler' = "none"
            /\ UNCHANGED pipe_state
       ELSE /\ pipe_state' = [pipe_state EXCEPT ![source_pipeline] = "PLAYING"]
            /\ gpc' = "ss_rearm"
            /\ UNCHANGED <<g_error, g_handler>>
    /\ UNCHANGED <<now, frame_vars, source_pipeline, underrun_timeout, glib_timers,
                   tearing_down, x_source, burst, h_window, config_vars, engine_vars, upc>>

\* a plausible slip: start_source that never re-arms the underrun timer
start_source_no_rearm ==
    /\ gpc = "ss_rearm"
    /\ gpc' = "idle"
    /\ g_handler' = "none"
    /\ UNCHANGED <<now, frame_vars, source_vars, config_vars, engine_vars, upc>>

\* if self.restart_source_enabled: self.underrun_timeout.start(); return False
start_source_rearm ==
    /\ gpc = "ss_rearm"
    /\ IF ~restart_source_enabled
       THEN UNCHANGED <<underrun_timeout, glib_timers, g_error, burst, h_window>>
       ELSE IF ~underrun_timeout.set
       THEN /\ g_error' = "start_source: None has no start"
            /\ UNCHANGED <<underrun_timeout, glib_timers, burst, h_window>>
       ELSE /\ underrun_timeout' = [set |-> TRUE, timeout_id |-> FreshTimerId]
            /\ glib_timers' = GObjectTimeout_start(glib_timers, FreshTimerId,
                                                   "restart_source", UnderrunDelay)
            /\ burst' = 0
            /\ h_window' = "none"
            /\ UNCHANGED g_error
    /\ gpc' = "idle"
    /\ g_handler' = "none"
    /\ UNCHANGED <<now, frame_vars, source_pipeline, pipe_state, tearing_down,
                   x_source, config_vars, engine_vars, upc>>

\* -------------------------------------------------------- Display.__exit__
\* self.tearing_down = True
Display_exit_begin ==
    /\ upc = "idle"
    /\ tearing_down' = TRUE
    /\ upc' = "x_swap"
    /\ UNCHANGED <<now, frame_vars, source_pipeline, pipe_state, underrun_timeout,
                   glib_timers, x_source, burst, h_window, g_error, config_vars, engine_vars, gpc,
                   g_handler>>

\* self.source_pipeline, source = None, self.source_pipeline; if source: ...
Display_exit_swap ==
    /\ upc = "x_swap"
    /\ x_source' = source_pipeline
    /\ source_pipeline' = 0
    /\ upc' = IF source_pipeline = 0 THEN "exited"
              ELSE IF source_teardown_eos THEN "x_await" ELSE "x_null"
    /\ UNCHANGED <<now, frame_vars, pipe_state, underrun_timeout, glib_timers,
                   tearing_down, burst, h_window, g_error, config_vars, engine_vars, gpc, g_handler>>

\* send_event(Gst.Event.new_eos()); self.appsink_await_eos(..., timeout=10)
\* returns on the appsink's eos or when its timeout runs out, whichever is first.
Display_exit_await_eos ==
    /\ upc = "x_await"
    /\ upc' = "x_null"
    /\ UNCHANGED <<now, frame_vars, source_vars, config_vars, engine_vars, gpc, g_handler>>

\* source.set_state(Gst.State.NULL); source = None
Display_exit_null ==
    /\ upc = "x_null"
    /\ pipe_state' = [pipe_state EXCEPT ![x_source] = "NULL"]
    /\ x_source' = 0
    /\ upc' = "exited"
    /\ UNCHANGED <<now, frame_vars, source_pipeline, underrun_timeout, glib_timers,
                   tearing_down, burst, h_window, g_error, config_vars, engine_vars, gpc, g_handler>>

NextSource ==
    \/ Tick
    \/ Display_enter
    \/ on_error
    \/ tell_user_thread_acquire
    \/ tell_user_thread_write
    \/ tell_user_thread_notify
    \/ on_eos_from_source_pipeline
    \/ on_underrun
    \/ on_running
    \/ timeout_dispatch
    \/ restart_source_stop
    \/ restart_source_clear
    \/ restart_source_schedule
    \/ start_source_check
    \/ create_source_pipeline
    \/ set_source_pipeline_playing
    \/ start_source_rearm
    \/ Display_exit_begin
    \/ Display_exit_swap
    \/ Display_exit_await_eos
    \/ Display_exit_null

SpecSource == Init /\ [][NextSource]_vars

\* The whole Display: both threads and every callback.
Next == NextFrame \/ NextSource

Spec == Init /\ [][Next]_vars


\* The frame-delivery threads under the scheduling the program relies on: both
\* threads keep running, the clock advances, and a thread that keeps finding
\* the condition's lock free gets it.
FairSpecFrame ==
    /\ SpecFrame
    /\ WF_vars(now < MaxFrameTime /\ Tick)
    /\ WF_vars(get_frame_check)
    /\ WF_vars(get_frame_time)
    /\ WF_vars(get_frame_wait_timeout)
    /\ SF_vars(get_frame_acquire)
    /\ WF_vars(tell_user_thread_write)
    /\ WF_vars(tell_user_thread_notify)

\* The Frame Source state of the design (NORMAL, UNDERRUN_PENDING, RESTARTING),
\* read off the Display's fields.
PipelineState ==
    IF source_pipeline = 0 THEN "RESTARTING"
    ELSE IF TimersFor("restart_source") # {} THEN "UNDERRUN_PENDING"
    ELSE "NORMAL"

\* =========================================================== _find_matches
\* The matching engine of core.py. The pixel arithmetic of OpenCV is outside
\* the repository: what cv2.matchTemplate puts in the heatmap of each pyramid
\* level, and whether the second pass finds the candidate region clean, are
\* inputs. Certainties and thresholds are counted in tenths (One is 1.0).
MaxImageSide == 4
MaxCells == 4
MaxLevels == 2

One == 10
Relax == 2
MaskSqdiff == 2550
MaskOther == 0

MatchMethods == {"sqdiff-normed", "ccorr-normed", "ccoeff-normed"}
ConfirmMethods == {"none", "absdiff"}
MatchThresholds == {0, 2, 8}

\* the values cv2.matchTemplate can put in a heatmap cell
HeatValues(method) ==
    CASE method = "sqdiff-normed" -> {1, 9}
      [] method = "ccorr-normed" -> {3, 9}
      [] method = "ccoeff-normed" -> {-3, 9}
UpperValues == {1, 9}

Images == [h : 1..MaxImageSide, w : 1..MaxImageSide]
Templates ==
    [h : 0..(MaxImageSide + 1), w : 0..(MaxImageSide + 1), ndim : {3},
     channels : {1, 3}, dtype : {"uint8", "uint16"}]
    \cup [h : 0..(MaxImageSide + 1), w : 0..(MaxImageSide + 1), ndim : {2},
          channels : {0}, dtype : {"uint8"}]

MaxResults == MaxCells + 2

\* a plausible slip: comparing the sizes only
Precondition_sizes_only(img, tmpl) ==
    IF img.h < tmpl.h \/ img.w < tmpl.w
    THEN "Source image must be larger than template image"
    ELSE IF tmpl.h < 1 \/ tmpl.w < 1
    THEN "Template image must contain some data"
    ELSE "ok"

\* the four checks at the top of _find_matches, in their order
Precondition(img, tmpl) ==
    IF img.h < tmpl.h \/ img.w < tmpl.w
    THEN "Source image must be larger than template image"
    ELSE IF tmpl.h < 1 \/ tmpl.w < 1
    THEN "Template image must contain some data"
    ELSE IF tmpl.ndim # 3 \/ tmpl.channels # 3
    THEN "Template image must be 3 channel BGR"
    ELSE IF tmpl.dtype # "uint8"
    THEN "Template image must be 8-bits per channel"
    ELSE "ok"

\* _match_template: the heatmap has one cell per position of the template
\* inside the image; a position is <<x, y>>
HeatmapPositions(img, tmpl) ==
    (0..(img.w - tmpl.w)) \X (0..(img.h - tmpl.h))

\* cv2.minMaxLoc scans row by row and reports the first extreme it meets
ScanBefore(p, q) == p[2] < q[2] \/ (p[2] = q[2] /\ p[1] <= q[1])
FirstInScan(S) == CHOOSE p \in S : \A q \in S : ScanBefore(p, q)

minMaxLoc(hm) ==
    LET P == DOMAIN hm
        min_location == FirstInScan({p \in P : \A q \in P : hm[p] <= hm[q]})
        max_location == FirstInScan({p \in P : \A q \in P : hm[p] >= hm[q]})
    IN  [min_value |-> hm[min_location], max_value |-> hm[max_location],
         min_location |-> min_location, max_location |-> max_location]

_find_best_match_position(matches_heatmap, method, thr) ==
    LET mm == minMaxLoc(matches_heatmap)
        c == IF method = "sqdiff-normed" THEN One - mm.min_value ELSE mm.max_value
    IN  [matched |-> c >= thr,
         best_match_position |-> IF method = "sqdiff-normed"
                                 THEN mm.min_location ELSE mm.max_location,
         certainty |-> c]

_upsample(position, lv) == <<position[1] * 2 ^ lv, position[2] * 2 ^ lv>>

\* Region(x, y, width=..., height=...)
MatchRegion(position, tmpl) ==
    [x |-> position[1], y |-> position[2],
     right |-> position[1] + tmpl.w, bottom |-> position[2] + tmpl.h]

Max(a, b) == IF a >= b THEN a ELSE b

\* threshold = max(0, match_threshold - (0.2 if level > 0 else 0))
LevelThreshold(mp, lv) ==
    Max(0, mp.match_threshold - (IF lv > 0 THEN Relax ELSE 0))

\* The loop over the pyramid, from the coarsest level lv down: it stops at the
\* first level whose best position does not reach the threshold, else at
\* level 0. The result is what the loop leaves in its variables.
RECURSIVE PyramidSearch(_, _, _)
PyramidSearch(mp, maps, lv) ==
    LET thr == LevelThreshold(mp, lv)
        best == _find_best_match_position(maps[lv], mp.match_method, thr)
    IN  IF ~best.matched \/ lv = 0
        THEN [level |-> lv, heatmap |-> maps[lv], threshold |-> thr,
              matched |-> best.matched,
              best_match_position |-> best.best_match_position,
              certainty |-> best.certainty]
        ELSE PyramidSearch(mp, maps, lv - 1)

\* cv2.rectangle(heatmap, (x1, y1), (x2, y2), value, FILLED): both corners are
\* inside the rectangle, and what falls outside the array is clipped
rectangle(hm, x1, y1, x2, y2, value) ==
    [p \in DOMAIN hm |->
        IF x1 <= p[1] /\ p[1] <= x2 /\ y1 <= p[2] /\ p[2] <= y2
        THEN value ELSE hm[p]]

\* a plausible slip: the two mask values swapped between the methods
exclude_wrong_polarity(hm, reg, method) ==
    rectangle(hm, reg.x - (reg.right - reg.x - 1), reg.y - (reg.bottom - reg.y - 1),
              reg.right - 1, reg.bottom - 1,
              IF method = "sqdiff-normed" THEN MaskOther ELSE MaskSqdiff)

\* exclude = region.extend(x=-(region.width - 1), y=-(region.height - 1)),
\* then the rectangle from (exclude.x, exclude.y) to (exclude.right - 1,
\* exclude.bottom - 1) is filled with mask_value
exclude_previous_match(hm, reg, method) ==
    LET width == reg.right - reg.x
        height == reg.bottom - reg.y
        exclude == [x |-> reg.x - (width - 1), y |-> reg.y - (height - 1),
                    right |-> reg.right, bottom |-> reg.bottom]
        mask_value == IF method = "sqdiff-normed" THEN MaskSqdiff ELSE MaskOther
    IN  rectangle(hm, exclude.x, exclude.y, exclude.right - 1,
                  exclude.bottom - 1, mask_value)

NoRegion == [x |-> 0, y |-> 0, right |-> 0, bottom |-> 0]

\* A call _find_matches(image, template, match_parameters, imglog) whose
\* generator has not been advanced yet.
InitMatch ==
    /\ InitDisplay
    /\ ApiIdle
    /\ ~restart_source_enabled
    /\ ~source_teardown_eos
    /\ MaskIdle
    /\ image \in Images
    /\ template \in Templates
    /\ fm_pc = "new"
    /\ fm_error = "none"
    /\ heatmap = <<>>
    /\ level = 0
    /\ threshold = 0
    /\ matched = FALSE
    /\ region = NoRegion
    /\ certainty = 0
    /\ fm_i = 0
    /\ results = <<>>
    /\ IF Precondition(image, template) # "ok"
       THEN /\ match_parameters = [match_method |-> "sqdiff-normed",
                                   match_threshold |-> 0,
                                   confirm_method |-> "none"]
            /\ levels = 1
            /\ matchTemplate = <<>>
            /\ countNonZero = <<>>
       ELSE /\ Cardinality(HeatmapPositions(image, template)) <= MaxCells
            /\ match_parameters \in [match_method : MatchMethods,
                                     match_threshold : MatchThresholds,
                                     confirm_method : ConfirmMethods]
            /\ levels \in 0..MaxLevels
            /\ \E h0 \in [HeatmapPositions(image, template) ->
                             HeatValues(match_parameters.match_method)],
                  up \in [1..(levels - 1) -> UpperValues] :
                  LET maps == [l \in 0..(levels - 1) |->
                                  IF l = 0 THEN h0
                                  ELSE [p \in {<<0, 0>>} |-> up[l]]]
                  IN  \* level 0 is not computed when the search ends above it
                      /\ (levels = 0
                          \/ PyramidSearch(match_parameters, maps, levels - 1).level > 0)
                            => \A p \in DOMAIN h0 : h0[p] = 9
                      /\ matchTemplate = maps
            /\ countNonZero = [p \in HeatmapPositions(image, template) |-> "unknown"]

\* the results kept for inspection: the latest MaxResults
Keep(seq) == IF Len(seq) > MaxResults THEN Tail(seq) ELSE seq

\* a plausible slip: reporting the first-pass outcome without the second pass
_confirm_match_skipped(confirm_method, clean) == TRUE

\* _confirm_match; `clean` is cv2.countNonZero(eroded) == 0
_confirm_match(confirm_method, clean) ==
    IF confirm_method = "none" THEN TRUE ELSE clean

\* The body of the loop of _find_matches: the second pass, run only on a
\* first-pass match, and the yield of (confirmed, region, first_pass_matched,
\* first_pass_certainty).
ConfirmAndYield(first_pass_matched, reg, first_pass_certainty) ==
    \E clean \in BOOLEAN :
        LET pos == <<reg.x, reg.y>>
            looks == first_pass_matched /\ match_parameters.confirm_method # "none"
            confirmed ==
                first_pass_matched
                /\ _confirm_match(match_parameters.confirm_method, clean)
        IN  /\ IF looks
               THEN /\ countNonZero[pos] \in {"unknown", IF clean THEN "zero" ELSE "nonzero"}
                    /\ countNonZero' = [countNonZero EXCEPT
                                           ![pos] = IF clean THEN "zero" ELSE "nonzero"]
               ELSE /\ clean
                    /\ UNCHANGED countNonZero
            /\ results' = Keep(Append(results,
                                 [matched |-> confirmed, region |-> reg,
                                  first_pass_matched |-> first_pass_matched,
                                  first_pass_certainty |-> first_pass_certainty]))
            /\ fm_pc' = "yielded"

\* The first next(): the checks, the pyramid search, and the first result.
_find_matches_start ==
    /\ fm_pc = "new"
    /\ IF Precondition(image, template) # "ok"
       THEN /\ fm_pc' = "error"
            /\ fm_error' = Precondition(image, template)
            /\ UNCHANGED <<heatmap, level, threshold, matched, region, certainty,
                           fm_i, results, countNonZero>>
       ELSE IF levels <= 0
       THEN /\ fm_pc' = "error"
            /\ fm_error' = "'match.pyramid_levels' must be > 0"
            /\ UNCHANGED <<heatmap, level, threshold, matched, region, certainty,
                           fm_i, results, countNonZero>>
       ELSE \E s \in {PyramidSearch(match_parameters, matchTemplate, levels - 1)} :
            \E reg \in {MatchRegion(_upsample(s.best_match_position, s.level),
                                    template)} :
                /\ heatmap' = s.heatmap
                /\ level' = s.level
                /\ threshold' = s.threshold
                /\ matched' = s.matched
                /\ region' = reg
                /\ certainty' = s.certainty
                /\ fm_i' = 0
                /\ ConfirmAndYield(s.matched, reg, s.certainty)
                /\ UNCHANGED fm_error
    /\ UNCHANGED <<display_vars, api_vars, mask_vars, image, template, match_parameters, levels,
                   matchTemplate>>

\* next() after a confirmed match: the previous match is excluded from the
\* heatmap, the best remaining position is the next candidate.
_find_matches_resume ==
    /\ fm_pc = "yielded"
    /\ results[Len(results)].matched
    /\ \E hm \in {exclude_previous_match(heatmap, region,
                                          match_parameters.match_method)} :
       \E best \in {_find_best_match_position(hm, match_parameters.match_method,
                                              threshold)} :
       \E reg \in {MatchRegion(best.best_match_position, template)} :
           /\ heatmap' = hm
           /\ matched' = best.matched
           /\ region' = reg
           /\ certainty' = best.certainty
           /\ fm_i' = (fm_i + 1) % (MaxResults + 1)
           /\ ConfirmAndYield(best.matched, reg, best.certainty)
    /\ UNCHANGED <<display_vars, api_vars, mask_vars, image, template, match_parameters, levels,
                   matchTemplate, level, threshold, fm_error>>

\* next() after an unconfirmed result: `break`, the generator is exhausted.
_find_matches_stop ==
    /\ fm_pc = "yielded"
    /\ ~results[Len(results)].matched
    /\ fm_pc' = "done"
    /\ UNCHANGED <<display_vars, api_vars, mask_vars, image, template, match_parameters, levels,
                   matchTemplate, countNonZero, fm_error, heatmap, level,
                   threshold, matched, region, certainty, fm_i, results>>

NextMatch ==
    \/ _find_matches_start
    \/ _find_matches_resume
    \/ _find_matches_stop

SpecMatch == InitMatch /\ [][NextMatch]_vars

\* The calls on one-row images with a one-row, 8-bit template, and a caller
\* that keeps asking for the next result (_match_all's for loop).
InitMatchRow ==
    InitMatch /\ image.h = 1 /\ template.h = 1 /\ template.dtype = "uint8"

FairSpecMatch ==
    /\ InitMatchRow
    /\ [][NextMatch]_vars
    /\ WF_vars(_find_matches_start)
    /\ WF_vars(_find_matches_resume)
    /\ WF_vars(_find_matches_stop)

\* ================================================================ mask.py
\* Mask objects live in a heap (mask_heap, a sequence; an object's identity is
\* its index), because a Mask built from another one shares its image and its
\* BinOp, and to_array memoises in the object. None is the empty set and a
\* present value v is {v}. An array is its shape <<h, w, channels>> and one
\* byte per pixel <<x, y>>: mask images have equal channels, so converting
\* between 1 and 3 channels keeps that byte.
MaxNodes == 3
MaxShapeSide == 2

Huge == 1000

None == {}
Some(v) == {v}
Get(s) == CHOOSE v \in s : TRUE

\* Region(x, y, right=, bottom=); Region.ALL is unbounded on every side
Region(x, y, right, bottom) == [x |-> x, y |-> y, right |-> right, bottom |-> bottom]
Region_ALL == Region(-Huge, -Huge, Huge, Huge)

Min(a, b) == IF a <= b THEN a ELSE b

\* Region.intersect: None when an argument is None or nothing is shared
Region_intersect(r1, r2) ==
    IF r1 = None \/ r2 = None THEN None
    ELSE LET a == Get(r1)
             b == Get(r2)
             x == Max(a.x, b.x)
             y == Max(a.y, b.y)
             right == Min(a.right, b.right)
             bottom == Min(a.bottom, b.bottom)
         IN  IF right > x /\ bottom > y
             THEN Some(Region(x, y, right, bottom)) ELSE None

Channels == {1, 3}
Shapes == (1..MaxShapeSide) \X (1..MaxShapeSide) \X Channels
Pixels(shape) == (0..(shape[2] - 1)) \X (0..(shape[1] - 1))

\* numpy.full(shape, value, dtype=numpy.uint8)
full(shape, value) == [shape |-> shape, data |-> [p \in Pixels(shape) |-> value]]

\* uint8 arithmetic, bit by bit
RECURSIVE BitAnd(_, _, _)
BitAnd(a, b, bits) ==
    IF bits = 0 THEN 0
    ELSE (a % 2) * (b % 2) + 2 * BitAnd(a \div 2, b \div 2, bits - 1)
BitNot(a) == 255 - a
BitOr(a, b) == BitNot(BitAnd(BitNot(a), BitNot(b), 8))

array_or(l, r) ==
    [shape |-> l.shape, data |-> [p \in DOMAIN l.data |-> BitOr(l.data[p], r.data[p])]]
array_and(l, r) ==
    [shape |-> l.shape,
     data |-> [p \in DOMAIN l.data |-> BitAnd(l.data[p], r.data[p], 8)]]
array_not(a) == [shape |-> a.shape, data |-> [p \in DOMAIN a.data |-> BitNot(a.data[p])]]

\* load_image(array, color_channels=n) on a mask image
load_image(array, color_channels) ==
    [shape |-> <<array.shape[1], array.shape[2], color_channels>>,
     data |-> array.data]

\* the indices a numpy slice start:stop selects on an axis of length n
Clamp(v, n) == Max(0, Min(IF v < 0 THEN v + n ELSE v, n))
Slice(start, stop, n) == {k \in 0..(n - 1) : Clamp(start, n) <= k /\ k < Clamp(stop, n)}

\* array[r.y:r.bottom, r.x:r.right] = 255
fill_region(array, r) ==
    [array EXCEPT !.data =
        [p \in DOMAIN array.data |->
            IF /\ p[1] \in Slice(r.x, r.right, array.shape[2])
               /\ p[2] \in Slice(r.y, r.bottom, array.shape[1])
            THEN 255 ELSE array.data[p]]]

\* a Mask object: _image, _binop, _region, _invert, _array
MaskNode(img, binop, reg, invert) ==
    [image |-> img, binop |-> binop, region |-> reg, invert |-> invert,
     array |-> None]

BinOp(op, left, right) == [op |-> op, left |-> left, right |-> right]

\* the argument m of Mask(m), with its type
FromImage(array) == [type |-> "ndarray", value |-> Some(array)]
FromBinOp(binop) == [type |-> "BinOp", value |-> Some(binop)]
FromMask(id) == [type |-> "Mask", value |-> Some(id)]
FromRegion(r) == [type |-> "Region", value |-> Some(r)]
FromNone == [type |-> "NoneType", value |-> None]

\* a plausible slip: Mask(m, invert=True) on a Mask sets the flag
Mask_init_sets_invert(heap, m, invert) ==
    CASE m.type = "ndarray" ->
            Append(heap, MaskNode(m.value, None, None, invert))
      [] m.type = "BinOp" ->
            Append(heap, MaskNode(None, m.value, None, invert))
      [] m.type = "Mask" ->
            LET o == heap[Get(m.value)]
            IN  Append(heap, MaskNode(o.image, o.binop, o.region,
                                      o.invert \/ invert))
      [] m.type = "Region" ->
            Append(heap, MaskNode(None, None, m.value, invert))
      [] m.type = "NoneType" ->
            Append(heap, MaskNode(None, None,
                                  IF invert THEN Some(Region_ALL) ELSE None, FALSE))

\* Mask.__init__: the heap with the new object appended
Mask_init(heap, m, invert) ==
    CASE m.type = "ndarray" ->
            Append(heap, MaskNode(m.value, None, None, invert))
      [] m.type = "BinOp" ->
            Append(heap, MaskNode(None, m.value, None, invert))
      [] m.type = "Mask" ->
            LET o == heap[Get(m.value)]
            IN  Append(heap, MaskNode(o.image, o.binop, o.region,
                                      IF invert THEN ~o.invert ELSE o.invert))
      [] m.type = "Region" ->
            Append(heap, MaskNode(None, None, m.value, invert))
      [] m.type = "NoneType" ->
            Append(heap, MaskNode(None, None,
                                  IF invert THEN Some(Region_ALL) ELSE None, FALSE))

\* Mask.__add__ and Mask.__sub__: Mask(BinOp(op, self, Mask(other)))
Mask_binop(heap, op, self, other) ==
    LET h1 == Mask_init(heap, other, FALSE)
    IN  Mask_init(h1, FromBinOp(BinOp(op, self, Len(h1))), FALSE)

\* a plausible slip: ~self flips the flag of self before copying it
Mask_invert_in_place(heap, self) ==
    LET h == [heap EXCEPT ![self].invert = ~@, ![self].array = None]
    IN  Append(h, h[self])

\* Mask.__invert__
Mask_invert(heap, self) == Mask_init(heap, FromMask(self), TRUE)

\* a plausible slip: rasterizing the region without clipping it to the frame
region_array_unclipped(reg, shape) ==
    IF reg = None THEN full(shape, 0) ELSE fill_region(full(shape, 0), Get(reg))

\* the Region branch of to_array
region_array(reg, shape) ==
    LET r == Region_intersect(reg, Some(Region(0, 0, shape[2], shape[1])))
    IN  IF r # None THEN fill_region(full(shape, 0), Get(r)) ELSE full(shape, 0)

\* a plausible slip: the difference computed as left & right
combine_and(op, l, r) ==
    IF op = "+" THEN array_or(l, r) ELSE array_and(l, r)

\* the BinOp branch of to_array
combine(op, l, r) ==
    IF op = "+" THEN array_or(l, r) ELSE array_and(l, array_not(r))

\* Mask.to_array(shape): the heap after the call (objects memoise) and what
\* the call returns, an array or the ValueError it raises
RECURSIVE to_array(_, _, _)
to_array(heap, self, shape) ==
    LET o == heap[self]
        done(h, array) ==
            LET out == IF o.invert THEN array_not(array) ELSE array
            IN  [heap |-> [h EXCEPT ![self].array = Some(out)], out |-> Some(out)]
    IN  IF o.array # None /\ Get(o.array).shape = shape
        THEN [heap |-> heap, out |-> o.array]
        ELSE IF o.image # None
        THEN LET array == Get(o.image)
             IN  IF <<array.shape[1], array.shape[2]>> # <<shape[1], shape[2]>>
                 THEN [heap |-> heap, out |-> None]
                 ELSE IF array.shape[3] # shape[3]
                 THEN done(heap, load_image(array, shape[3]))
                 ELSE done(heap, array)
        ELSE IF o.binop # None
        THEN LET n == Get(o.binop)
                 l == to_array(heap, n.left, shape)
             IN  IF l.out = None THEN l
                 ELSE LET r == to_array(l.heap, n.right, shape)
                      IN  IF r.out = None THEN r
                          ELSE done(r.heap, combine(n.op, Get(l.out), Get(r.out)))
        ELSE done(heap, region_array(o.region, shape))

\* ---------------------------------------------------------------- __repr__
\* A rendering is a sequence of tokens <<kind, region>>: the operators and
\* parentheses, and one token per leaf, which for a Region carries the Region
\* that its text Region(x=.., y=.., right=.., bottom=..) names.
Tok(kind) == <<kind, Region(0, 0, 0, 0)>>
RegionTok(r) == <<"Region", r>>

\* "-" in text: an operator, or the sign of a negative coordinate
HasMinus(text) ==
    \E k \in DOMAIN text :
        \/ text[k][1] = "-"
        \/ /\ text[k][1] = "Region"
           /\ \E f \in {"x", "y", "right", "bottom"} : text[k][2][f] < 0

AssertionError == <<Tok("AssertionError")>>

\* Mask.__repr__
RECURSIVE Mask_repr(_, _)
Mask_repr(heap, self) ==
    LET o == heap[self]
        prefix == IF o.invert THEN <<Tok("~")>> ELSE <<>>
    IN  IF o.image # None THEN prefix \o <<Tok("Mask(<Image>)")>>
        ELSE IF o.binop # None
        THEN LET n == Get(o.binop)
                 left_repr == Mask_repr(heap, n.left)
                 right == Mask_repr(heap, n.right)
                 right_repr ==
                     IF HasMinus(right) /\ right[1][1] \notin {"~", "("}
                     THEN <<Tok("(")>> \o right \o <<Tok(")")>> ELSE right
                 inner == left_repr \o <<Tok(n.op)>> \o right_repr
             IN  IF left_repr = AssertionError \/ right = AssertionError
                 THEN AssertionError
                 ELSE IF o.invert
                 THEN prefix \o <<Tok("(")>> \o inner \o <<Tok(")")>>
                 ELSE inner
        ELSE IF o.region # None THEN prefix \o <<RegionTok(Get(o.region))>>
        ELSE AssertionError

\* Reading a rendering back as an expression, ~ binding tightest and + and -
\* associating to the left: the set of pixels it covers in a frame of the
\* shape, and where reading stopped. A text that is no expression is not ok.
RECURSIVE ReadUnary(_, _, _), ReadSum(_, _, _), ReadRest(_, _, _, _)
ReadUnary(text, k, shape) ==
    IF k > Len(text) THEN [ok |-> FALSE, val |-> {}, next |-> k]
    ELSE CASE text[k][1] = "~" ->
                 LET r == ReadUnary(text, k + 1, shape)
                 IN  [r EXCEPT !.val = Pixels(shape) \ @]
           [] text[k][1] = "(" ->
                 LET r == ReadSum(text, k + 1, shape)
                 IN  IF r.ok /\ r.next <= Len(text) /\ text[r.next][1] = ")"
                     THEN [r EXCEPT !.next = @ + 1]
                     ELSE [r EXCEPT !.ok = FALSE]
           [] text[k][1] = "Region" ->
                 [ok |-> TRUE,
                  val |-> {p \in Pixels(shape) :
                              /\ text[k][2].x <= p[1] /\ p[1] < text[k][2].right
                              /\ text[k][2].y <= p[2] /\ p[2] < text[k][2].bottom},
                  next |-> k + 1]
           [] OTHER -> [ok |-> FALSE, val |-> {}, next |-> k]

ReadRest(text, acc, k, shape) ==
    IF k > Len(text) \/ text[k][1] \notin {"+", "-"}
    THEN [ok |-> TRUE, val |-> acc, next |-> k]
    ELSE LET r == ReadUnary(text, k + 1, shape)
         IN  IF ~r.ok THEN r
             ELSE ReadRest(text,
                           IF text[k][1] = "+" THEN acc \cup r.val ELSE acc \ r.val,
                           r.next, shape)

ReadSum(text, k, shape) ==
    LET r == ReadUnary(text, k, shape)
    IN  IF ~r.ok THEN r ELSE ReadRest(text, r.val, r.next, shape)

\* ------------------------------------------------- inputs of the mask runs
\* intervals on an axis of length MaxShapeSide: empty, inside, across the low
\* edge, across the high edge, covering, beyond the high edge, before the low
Intervals ==
    {<<0, 0>>, <<0, 1>>, <<-1, 1>>, <<MaxShapeSide - 1, MaxShapeSide + 1>>,
     <<-1, MaxShapeSide + 1>>, <<MaxShapeSide, MaxShapeSide + 1>>, <<-1, 0>>}

RegionInputs == {Region(h[1], v[1], h[2], v[2]) : h \in Intervals, v \in Intervals}

\* the second operand: empty, inside, across the high edge, covering
OtherIntervals ==
    {<<0, 0>>, <<0, 1>>, <<MaxShapeSide - 1, MaxShapeSide + 1>>,
     <<-1, MaxShapeSide + 1>>}

OtherRegionInputs ==
    {Region(h[1], v[1], h[2], v[2]) : h \in OtherIntervals, v \in OtherIntervals}

\* a few inputs for the runs that build mask trees
FewShapes == {<<1, MaxShapeSide, 3>>, <<MaxShapeSide, 1, 1>>}
FewRegions == {Region(0, 0, 1, 1), Region(-1, 0, 1, MaxShapeSide + 1)}

\* mask images with grey level 100 in a corner and 255 elsewhere: of the shape
\* asked for, of that shape in one channel, and of another size
ImageInputs(shape) ==
    {[shape |-> sh, data |-> [p \in Pixels(sh) |-> IF p = <<0, 0>> THEN 100 ELSE 255]] :
        sh \in {shape, <<shape[1], shape[2], 1>>, <<shape[1], shape[2], 3>>,
                <<MaxShapeSide, MaxShapeSide, 1>>}}

NoOut == [self |-> 0, shape |-> <<0, 0, 0>>, out |-> None]
NoRepr == [self |-> 0, text |-> <<>>]

\* runs that build mask trees freely from a few inputs
InitMask ==
    /\ InitDisplay
    /\ ApiIdle
    /\ ~restart_source_enabled
    /\ ~source_teardown_eos
    /\ MatchIdle
    /\ mask_heap = <<>>
    /\ mask_shape \in FewShapes
    /\ region_a \in FewRegions
    /\ region_b = Region(0, 0, MaxShapeSide, 1)
    /\ mask_image \in ImageInputs(mask_shape)
    /\ mask_out = NoOut
    /\ mask_repr = NoRepr

\* runs on every pair of regions
InitMaskRegions ==
    /\ InitDisplay
    /\ ApiIdle
    /\ ~restart_source_enabled
    /\ ~source_teardown_eos
    /\ MatchIdle
    /\ mask_heap = <<>>
    /\ mask_shape \in Shapes
    /\ region_a \in RegionInputs
    /\ region_b \in OtherRegionInputs
    /\ mask_image = full(<<1, 1, 1>>, 255)
    /\ mask_out = NoOut
    /\ mask_repr = NoRepr

mask_inputs == <<mask_shape, region_a, region_b, mask_image>>

MaskIds == 1..Len(mask_heap)

\* Mask(m, invert=...) for m taken from `sources`
Mask_new(sources, inverts) ==
    /\ Len(mask_heap) < MaxNodes
    /\ \E k \in DOMAIN sources, invert \in inverts :
          mask_heap' = Mask_init(mask_heap, sources[k], invert)
    /\ UNCHANGED <<display_vars, api_vars, match_vars, mask_inputs, mask_out, mask_repr>>

\* ~self
Mask___invert__(limit) ==
    /\ Len(mask_heap) < limit
    /\ \E self \in MaskIds : mask_heap' = Mask_invert(mask_heap, self)
    /\ UNCHANGED <<display_vars, api_vars, match_vars, mask_inputs, mask_out, mask_repr>>

\* self + other and self - other, for other taken from `others`
Mask___add__(others, limit) ==
    /\ Len(mask_heap) + 2 <= limit
    /\ \E self \in MaskIds, k \in DOMAIN others :
          mask_heap' = Mask_binop(mask_heap, "+", self, others[k])
    /\ UNCHANGED <<display_vars, api_vars, match_vars, mask_inputs, mask_out, mask_repr>>

Mask___sub__(others, limit) ==
    /\ Len(mask_heap) + 2 <= limit
    /\ \E self \in MaskIds, k \in DOMAIN others :
          mask_heap' = Mask_binop(mask_heap, "-", self, others[k])
    /\ UNCHANGED <<display_vars, api_vars, match_vars, mask_inputs, mask_out, mask_repr>>

\* self.to_array(shape)
Mask_to_array ==
    /\ \E self \in MaskIds :
       \E r \in {to_array(mask_heap, self, mask_shape)} :
          /\ mask_heap' = r.heap
          /\ mask_out' = [self |-> self, shape |-> mask_shape, out |-> r.out]
    /\ UNCHANGED <<display_vars, api_vars, match_vars, mask_inputs, mask_repr>>

\* what the runs make masks from (tuples: the arguments differ in type)
MaskSources ==
    <<FromImage(mask_image), FromRegion(region_a), FromNone>>
    \o [id \in MaskIds |-> FromMask(id)]

MaskOthers ==
    <<FromRegion(region_b)>> \o [id \in MaskIds |-> FromMask(id)]

NextMask ==
    \/ Mask_new(MaskSources, BOOLEAN)
    \/ Mask___invert__(MaxNodes)
    \/ Mask___add__(MaskOthers, MaxNodes)
    \/ Mask___sub__(MaskOthers, MaxNodes)
    \/ Mask_to_array

SpecMask == InitMask /\ [][NextMask]_vars

\* Mask(a), then Mask(a) + b or Mask(a) - b, and their arrays
NextMaskRegions ==
    \/ (mask_heap = <<>> /\ Mask_new(<<FromRegion(region_a)>>, {FALSE}))
    \/ Mask___add__(<<FromRegion(region_b)>>, MaxNodes)
    \/ Mask___sub__(<<FromRegion(region_b)>>, MaxNodes)
    \/ Mask_to_array

SpecMaskRegions == InitMaskRegions /\ [][NextMaskRegions]_vars

\* repr(self)
Mask___repr__ ==
    /\ \E self \in MaskIds :
          mask_repr' = [self |-> self, text |-> Mask_repr(mask_heap, self)]
    /\ UNCHANGED <<display_vars, api_vars, match_vars, mask_inputs, mask_heap, mask_out>>

\* trees of Region masks, deep enough for a BinOp to be a right operand
MaxReprNodes == 5

InitMaskRepr ==
    /\ InitDisplay
    /\ ApiIdle
    /\ ~restart_source_enabled
    /\ ~source_teardown_eos
    /\ MatchIdle
    /\ mask_heap = <<>>
    /\ mask_shape \in FewShapes
    /\ region_a \in FewRegions
    /\ region_b = Region(0, 0, MaxShapeSide, 1)
    /\ mask_image = full(<<1, 1, 1>>, 255)
    /\ mask_out = NoOut
    /\ mask_repr = NoRepr

NextMaskRepr ==
    \/ (mask_heap = <<>> /\ Mask_new(<<FromRegion(region_a)>>, {FALSE}))
    \/ Mask___invert__(MaxReprNodes)
    \/ Mask___add__(MaskOthers, MaxReprNodes)
    \/ Mask___sub__(MaskOthers, MaxReprNodes)
    \/ Mask___repr__

SpecMaskRepr == InitMaskRepr /\ [][NextMaskRepr]_vars

\* ============================================================ SinkPipeline
\* Timestamps are counted in quarter seconds, so that frames can differ in
\* time and still lie inside the latency window. The thread that delivers
\* samples runs on_sample one loop iteration at a time, because the user
\* thread's draw() can take annotations_lock between two pushes. Samples
\* arrive with non-decreasing timestamps, and none arrives once the Display
\* has been torn down, which DeviceUnderTest.__exit__ does first.
MaxSamples == 4
MaxSinkTime == 4
MaxAnnotations == 1

SINK_LATENCY_SECS == 2
FramesMaxLen == 35

matching_vars == <<match_vars, mask_vars>>
non_sink_vars == <<display_vars, matching_vars, wait_vars, wfm_vars, pyramid_vars, press_vars>>

\* deque.appendleft under maxlen: a full deque loses its rightmost element
appendleft(frames, sample) ==
    IF Len(frames) = FramesMaxLen
    THEN <<sample>> \o SubSeq(frames, 1, Len(frames) - 1)
    ELSE <<sample>> \o frames

\* the rightmost element of the deque and what pop() leaves
Rightmost(frames) == frames[Len(frames)]
pop(frames) == SubSeq(frames, 1, Len(frames) - 1)

\* the frames each annotation was drawn on, after this frame is composited
DrawnOn(drawn, anns, sample) ==
    [a \in DOMAIN drawn |->
        IF \E k \in DOMAIN anns : anns[k].id = a /\ anns[k].time = sample.time
        THEN [drawn[a] EXCEPT !.frames = @ \cup {sample}] ELSE drawn[a]]

\* a plausible slip: annotations that are due stay pending
_push_sample_keeps(sample) ==
    /\ text_annotations' = SelectSeq(text_annotations, LAMBDA x : sample.time < x.end_time)
    /\ annotations' = SelectSeq(annotations, LAMBDA x : sample.time <= x.time)
    /\ h_drawn' = DrawnOn(h_drawn, annotations, sample)
    /\ _sample_count' = _sample_count + 1
    /\ h_in_order' = (h_in_order /\ h_pushed.time <= sample.time /\ h_pushed.id < sample.id)
    /\ h_pushed' = sample

\* SinkPipeline._push_sample: expired texts go, the annotations of this
\* frame's timestamp are drawn, those not later than it are removed, and the
\* frame is pushed to appsrc
_push_sample(sample) ==
    /\ text_annotations' = SelectSeq(text_annotations, LAMBDA x : sample.time < x.end_time)
    /\ annotations' = SelectSeq(annotations, LAMBDA x : ~(sample.time >= x.time))
    /\ h_drawn' = DrawnOn(h_drawn, annotations, sample)
    /\ _sample_count' = _sample_count + 1
    /\ h_in_order' = (h_in_order /\ h_pushed.time <= sample.time /\ h_pushed.id < sample.id)
    /\ h_pushed' = sample

\* SinkPipeline.__enter__
SinkPipeline_enter ==
    /\ sink_upc = "new"
    /\ received_eos' = FALSE
    /\ sink_state' = "PLAYING"
    /\ sink_upc' = "entered"
    /\ UNCHANGED <<non_sink_vars, sink_gpc, _frames, sink_now,
                   sink_arrived, sink_last_time, _sample_count, annotations,
                   text_annotations, sink_eos, sink_log, h_pushed, h_in_order,
                   h_discarded, h_drawn>>

\* SinkPipeline.on_sample, up to the loop
on_sample(limit, times) ==
    /\ sink_upc = "entered"
    /\ sink_gpc = "idle"
    /\ sink_arrived < limit
    /\ \E t \in times :
          /\ t >= sink_last_time
          /\ sink_now' = t
          /\ sink_last_time' = t
          /\ _frames' = appendleft(_frames, [id |-> sink_arrived + 1, time |-> t])
    /\ h_discarded' = (h_discarded \/ Len(_frames) = FramesMaxLen)
    /\ sink_arrived' = sink_arrived + 1
    /\ sink_gpc' = "loop"
    /\ UNCHANGED <<non_sink_vars, sink_upc, sink_state, _sample_count,
                   annotations, text_annotations, received_eos, sink_eos, sink_log,
                   h_pushed, h_in_order, h_drawn>>

\* a plausible slip: the loop keeps frames that are exactly at the window's edge
on_sample_loop_late ==
    /\ sink_gpc = "loop"
    /\ IF _frames = <<>>
       THEN /\ sink_gpc' = "idle"
            /\ UNCHANGED <<_frames, _sample_count, annotations, text_annotations,
                           h_pushed, h_in_order, h_drawn>>
       ELSE IF Rightmost(_frames).time >= sink_now - SINK_LATENCY_SECS
       THEN /\ sink_gpc' = "idle"
            /\ UNCHANGED <<_frames, _sample_count, annotations, text_annotations,
                           h_pushed, h_in_order, h_drawn>>
       ELSE /\ _frames' = pop(_frames)
            /\ _push_sample(Rightmost(_frames))
            /\ UNCHANGED sink_gpc
    /\ UNCHANGED <<non_sink_vars, sink_upc, sink_state, sink_now,
                   sink_arrived, sink_last_time, received_eos, sink_eos, sink_log,
                   h_discarded>>

\* one iteration of on_sample's loop: the oldest frame is pushed, or put back
\* because it is inside the latency window, which ends the call
on_sample_loop ==
    /\ sink_gpc = "loop"
    /\ IF _frames = <<>>
       THEN /\ sink_gpc' = "idle"
            /\ UNCHANGED <<_frames, _sample_count, annotations, text_annotations,
                           h_pushed, h_in_order, h_drawn>>
       ELSE IF Rightmost(_frames).time > sink_now - SINK_LATENCY_SECS
       THEN /\ sink_gpc' = "idle"
            /\ UNCHANGED <<_frames, _sample_count, annotations, text_annotations,
                           h_pushed, h_in_order, h_drawn>>
       ELSE /\ _frames' = pop(_frames)
            /\ _push_sample(Rightmost(_frames))
            /\ UNCHANGED sink_gpc
    /\ UNCHANGED <<non_sink_vars, sink_upc, sink_state, sink_now,
                   sink_arrived, sink_last_time, received_eos, sink_eos, sink_log,
                   h_discarded>>

\* SinkPipeline.draw of a match result whose frame has timestamp t (0 for a
\* result without a time, which is not kept)
draw_result ==
    /\ sink_upc = "entered"
    /\ Len(h_drawn) < MaxAnnotations
    /\ \E t \in 0..MaxSinkTime :
          /\ annotations' =
                IF t # 0 THEN Append(annotations, [id |-> Len(h_drawn) + 1, time |-> t])
                ELSE annotations
          /\ h_drawn' = Append(h_drawn, [time |-> t, frames |-> {}])
    /\ UNCHANGED <<non_sink_vars, sink_upc, sink_gpc, sink_state,
                   _frames, sink_now, sink_arrived, sink_last_time, _sample_count,
                   text_annotations, received_eos, sink_eos, sink_log, h_pushed,
                   h_in_order, h_discarded>>

\* SinkPipeline.draw of a text, at the time of the latest frame, for a
\* quarter second
draw_text ==
    /\ sink_upc = "entered"
    /\ text_annotations = <<>>
    /\ \E duration_secs \in {1} :
          text_annotations' =
              Append(text_annotations,
                     [time |-> sink_last_time, end_time |-> sink_last_time + duration_secs])
    /\ UNCHANGED <<non_sink_vars, sink_upc, sink_gpc, sink_state,
                   _frames, sink_now, sink_arrived, sink_last_time, _sample_count,
                   annotations, received_eos, sink_eos, sink_log, h_pushed,
                   h_in_order, h_discarded, h_drawn>>

\* SinkPipeline.__exit__: it begins when no sample is being delivered
SinkPipeline_exit ==
    /\ sink_upc = "entered"
    /\ sink_gpc = "idle"
    /\ sink_upc' = "drain"
    /\ UNCHANGED <<non_sink_vars, sink_gpc, sink_state, _frames,
                   sink_now, sink_arrived, sink_last_time, _sample_count,
                   annotations, text_annotations, received_eos, sink_eos, sink_log,
                   h_pushed, h_in_order, h_discarded, h_drawn>>

\* a plausible slip: the drain stops at the latency window, as on_sample does
exit_drain_window ==
    /\ sink_upc = "drain"
    /\ IF _frames # <<>> /\ Rightmost(_frames).time <= sink_now - SINK_LATENCY_SECS
       THEN /\ _frames' = pop(_frames)
            /\ _push_sample(Rightmost(_frames))
            /\ UNCHANGED sink_upc
       ELSE /\ sink_upc' = "eos"
            /\ UNCHANGED <<_frames, _sample_count, annotations, text_annotations,
                           h_pushed, h_in_order, h_drawn>>
    /\ UNCHANGED <<non_sink_vars, sink_gpc, sink_state, sink_now,
                   sink_arrived, sink_last_time, received_eos, sink_eos, sink_log,
                   h_discarded>>

\* while self._frames: self._push_sample(self._frames.pop())
exit_drain ==
    /\ sink_upc = "drain"
    /\ IF _frames # <<>>
       THEN /\ _frames' = pop(_frames)
            /\ _push_sample(Rightmost(_frames))
            /\ UNCHANGED sink_upc
       ELSE /\ sink_upc' = "eos"
            /\ UNCHANGED <<_frames, _sample_count, annotations, text_annotations,
                           h_pushed, h_in_order, h_drawn>>
    /\ UNCHANGED <<non_sink_vars, sink_gpc, sink_state, sink_now,
                   sink_arrived, sink_last_time, received_eos, sink_eos, sink_log,
                   h_discarded>>

\* the end-of-stream part of __exit__: appsrc accepts the signal or not
exit_eos ==
    /\ sink_upc = "eos"
    /\ IF _sample_count > 0
       THEN \E flow_ok \in BOOLEAN :
               IF flow_ok
               THEN /\ sink_eos' = "sent"
                    /\ sink_log' = sink_log \cup {"teardown: Sending eos on sink pipeline"}
                    /\ sink_upc' = "wait"
               ELSE /\ sink_eos' = "failed"
                    /\ sink_log' = sink_log \cup {"teardown: Sending eos on sink pipeline",
                                                  "Sending EOS to sink pipeline failed"}
                    /\ sink_upc' = "null"
       ELSE /\ sink_eos' = "skipped"
            /\ sink_log' = sink_log \cup
                  {"SinkPipeline teardown: Not sending EOS, no samples sent"}
            /\ sink_upc' = "null"
    /\ UNCHANGED <<non_sink_vars, sink_gpc, sink_state, _frames,
                   sink_now, sink_arrived, sink_last_time, _sample_count,
                   annotations, text_annotations, received_eos, h_pushed,
                   h_in_order, h_discarded, h_drawn>>

\* SinkPipeline._on_eos_from_sink_pipeline
_on_eos_from_sink_pipeline ==
    /\ sink_eos = "sent"
    /\ sink_state = "PLAYING"
    /\ ~received_eos
    /\ received_eos' = TRUE
    /\ UNCHANGED <<non_sink_vars, sink_upc, sink_gpc, sink_state,
                   _frames, sink_now, sink_arrived, sink_last_time, _sample_count,
                   annotations, text_annotations, sink_eos, sink_log, h_pushed,
                   h_in_order, h_discarded, h_drawn>>

\* self.received_eos.wait(10): the event is set, or ten seconds pass
exit_wait ==
    /\ sink_upc = "wait"
    /\ sink_log' = IF received_eos THEN sink_log
                   ELSE sink_log \cup {"Timeout waiting for sink EOS"}
    /\ sink_upc' = "null"
    /\ UNCHANGED <<non_sink_vars, sink_gpc, sink_state, _frames,
                   sink_now, sink_arrived, sink_last_time, _sample_count,
                   annotations, text_annotations, received_eos, sink_eos,
                   h_pushed, h_in_order, h_discarded, h_drawn>>

\* self.sink_pipeline.set_state(Gst.State.NULL)
exit_null ==
    /\ sink_upc = "null"
    /\ sink_state' = "NULL"
    /\ sink_upc' = "done"
    /\ UNCHANGED <<non_sink_vars, sink_gpc, _frames, sink_now,
                   sink_arrived, sink_last_time, _sample_count, annotations,
                   text_annotations, received_eos, sink_eos, sink_log, h_pushed,
                   h_in_order, h_discarded, h_drawn>>

NextSink ==
    \/ SinkPipeline_enter
    \/ on_sample(MaxSamples, 1..MaxSinkTime)
    \/ on_sample_loop
    \/ draw_result
    \/ draw_text
    \/ SinkPipeline_exit
    \/ exit_drain
    \/ exit_eos
    \/ _on_eos_from_sink_pipeline
    \/ exit_wait
    \/ exit_null

InitSink == Init /\ ~restart_source_enabled /\ ~source_teardown_eos

SpecSink == InitSink /\ [][NextSink]_vars

\* A burst: one frame more than the deque holds, each at the first timestamp
\* or one latency window and a quarter second later; nothing is drawn.
BurstSamples == FramesMaxLen + 1
BurstTimes == {1, 1 + SINK_LATENCY_SECS}

NextSinkBurst ==
    \/ SinkPipeline_enter
    \/ on_sample(BurstSamples, BurstTimes)
    \/ on_sample_loop
    \/ SinkPipeline_exit
    \/ exit_drain
    \/ exit_eos
    \/ _on_eos_from_sink_pipeline
    \/ exit_wait
    \/ exit_null

SpecSinkBurst == InitSink /\ [][NextSinkBurst]_vars

\* the user thread is scheduled: __exit__, once begun, keeps running
FairSpecSink ==
    /\ InitSink
    /\ [][NextSink]_vars
    /\ WF_vars(exit_drain)
    /\ WF_vars(exit_eos)
    /\ WF_vars(exit_wait)
    /\ WF_vars(exit_null)

\* ============================================================== wait_until
\* Python values are integers here: -1 is None, 0 a falsey value, 1 and 2
\* truthy values (True == 1 and False == 0 in Python too). One step is one
\* iteration of the loop; the clock advances by the time callable_ takes
\* and by the sleep.
MaxTimeout == 2
MaxCalls == 4

PyNone == -1
Values == {PyNone, 0, 1, 2}
Truthy(v) == v > 0
Predicates == {"None", "is 2", "not"}

\* predicate(value); without a predicate the value itself decides
predicate(kind, value) ==
    CASE kind = "None" -> value
      [] kind = "is 2" -> IF value = 2 THEN 1 ELSE 0
      [] kind = "not" -> IF Truthy(value) THEN 0 ELSE 1

non_wait_vars == <<display_vars, matching_vars, sink_vars, wfm_vars, pyramid_vars, press_vars>>

\* wait_until up to the loop
wait_until ==
    /\ wu_pc = "idle"
    /\ \E timeout_secs \in 0..MaxTimeout, interval_secs \in {0, 1},
          kind \in Predicates, stable_secs \in 0..MaxTimeout :
          /\ wu_args' = [timeout_secs |-> timeout_secs, interval_secs |-> interval_secs,
                         predicate |-> kind, stable_secs |-> stable_secs]
          /\ expiry_time' = wu_time + timeout_secs
    /\ stable_value' = PyNone
    /\ stable_predicate_value' = PyNone
    /\ wu_pc' = "loop"
    /\ UNCHANGED <<non_wait_vars, wu_time, stable_since, wu_result, h_calls>>

\* a plausible slip: on timeout the last value is returned as it is
timed_out_keeps(value) == value

\* what wait_until returns when it times out
timed_out(value) == IF ~Truthy(value) THEN value ELSE PyNone

\* a plausible slip: the latest value of the stable run is returned
stabilised_latest(first, latest) == latest

\* what wait_until returns once the value has been stable: stable_value
stabilised(first, latest) == first

\* one iteration of wait_until's loop
wait_until_loop ==
    /\ wu_pc = "loop"
    /\ Len(h_calls) < MaxCalls
    /\ \E value \in Values, took \in {0, 1} :
       \E predicate_value \in {predicate(wu_args.predicate, value)} :
       \E t \in {wu_time} :
       \E changed \in {wu_args.stable_secs # 0 /\ predicate_value # stable_predicate_value} :
       \E since \in {IF changed THEN {t} ELSE stable_since} :
          /\ h_calls' = Append(h_calls, [t |-> t, value |-> value,
                                         predicate_value |-> predicate_value])
          /\ stable_since' = since
          /\ stable_value' = IF changed THEN value ELSE stable_value
          /\ stable_predicate_value' =
                IF changed THEN predicate_value ELSE stable_predicate_value
          /\ IF /\ wu_args.stable_secs # 0
                /\ Truthy(predicate_value)
                /\ t - Get(since) >= wu_args.stable_secs
             THEN /\ wu_result' = [path |-> "stable",
                                   value |-> stabilised(IF changed THEN value
                                                        ELSE stable_value, value)]
                  /\ wu_pc' = "done"
                  /\ wu_time' = wu_time + took
             ELSE IF wu_args.stable_secs = 0 /\ Truthy(predicate_value)
             THEN /\ wu_result' = [path |-> "success", value |-> value]
                  /\ wu_pc' = "done"
                  /\ wu_time' = wu_time + took
             ELSE IF t >= expiry_time
             THEN /\ wu_result' = [path |-> "timeout", value |-> timed_out(value)]
                  /\ wu_pc' = "done"
                  /\ wu_time' = wu_time + took
             ELSE /\ wu_time' = wu_time + took + wu_args.interval_secs
                  /\ UNCHANGED <<wu_result, wu_pc>>
    /\ UNCHANGED <<non_wait_vars, wu_args, expiry_time>>

NextWait == wait_until \/ wait_until_loop

InitWait == Init /\ ~restart_source_enabled /\ ~source_teardown_eos

SpecWait == InitWait /\ [][NextWait]_vars

\* ========================================================== wait_for_match
\* One step is one iteration of wait_for_match's loop: frames() asks
\* Display.get_frame for a frame newer than `since`, which gives one or
\* raises; detect_match matches it; wait_for_match counts. Positions are
\* numbers, 0 being Position(0, 0); a result is [frame, match, position].
MaxWfmTime == 4
MaxConsecutive == 2

Positions == {0, 1}

\* the friendly names of the images searched for
ImageNames == {"a.png", "b.png"}

non_wfm_vars == <<display_vars, matching_vars, sink_vars, wait_vars, pyramid_vars, press_vars>>

\* wait_for_match and frames, up to their loops
wait_for_match ==
    /\ wfm_pc = "idle"
    /\ \E name \in ImageNames, timeout_secs \in 0..(MaxWfmTime - 1),
          consecutive_matches \in 1..MaxConsecutive, old \in BOOLEAN :
          /\ wfm_args' = [image |-> name, timeout_secs |-> timeout_secs,
                          consecutive_matches |-> consecutive_matches,
                          use_old_threading_behaviour |-> old]
          /\ frames_end_time' = wfm_time + timeout_secs
    /\ match_count' = 0
    /\ last_pos' = 0
    /\ frames_timestamp' = {}
    /\ frames_first' = TRUE
    /\ wfm_pc' = "loop"
    /\ UNCHANGED <<non_wfm_vars, wfm_time, _last_grabbed_frame_time, res, wfm_result,
                   h_checked>>

\* a plausible slip: frames() applies its time limit to the first frame too
frames_timed_out_always(is_first, frame_time, limit) == frame_time > limit

\* frames: not first and timeout_secs is not None and timestamp > end_time
frames_timed_out(is_first, frame_time, limit) == ~is_first /\ frame_time > limit

\* the frame times Display.get_frame(since=...) can return: later than
\* `since`, and any time when `since` is None
LaterThan(since) == {t \in 1..MaxWfmTime : since = {} \/ t > Get(since)}

\* a plausible slip: frames() asks for any frame every time
frames_since_none(old, last_grabbed, previous) == {}

\* frames: the `since` given to get_frame: the previous frame's timestamp
\* (None before the first), or _last_grabbed_frame_time under the old
\* threading behaviour
frames_since(old, last_grabbed, previous) ==
    IF old THEN {last_grabbed} ELSE previous

\* Display.get_frame raises instead of returning a frame
wait_for_match_no_video ==
    /\ wfm_pc = "loop"
    /\ wfm_result' = [kind |-> "NoVideo", res |-> {}, screenshot |-> {},
                      expected |-> "", timeout_secs |-> 0]
    /\ wfm_pc' = "done"
    /\ UNCHANGED <<non_wfm_vars, wfm_args, wfm_time, frames_end_time, frames_timestamp, frames_first,
                   _last_grabbed_frame_time, match_count, last_pos, res, h_checked>>

\* one iteration: the next frame, its match result, and the count
wait_for_match_loop ==
    /\ wfm_pc = "loop"
    /\ \E since \in {frames_since(wfm_args.use_old_threading_behaviour,
                                   _last_grabbed_frame_time, frames_timestamp)} :
       \E frame_time \in LaterThan(since) :
          /\ frames_timestamp' = {frame_time}
          /\ wfm_time' = Max(wfm_time, frame_time)
          /\ _last_grabbed_frame_time' =
                IF wfm_args.use_old_threading_behaviour THEN frame_time
                ELSE _last_grabbed_frame_time
          /\ IF frames_timed_out(frames_first, frame_time, frames_end_time)
             THEN \* the loop is over: raise MatchTimeout(res.frame, ...)
                  /\ wfm_result' =
                        IF res = {}
                        THEN [kind |-> "UnboundLocalError", res |-> {}, screenshot |-> {},
                              expected |-> "", timeout_secs |-> 0]
                        ELSE [kind |-> "MatchTimeout", res |-> {},
                              screenshot |-> {Get(res).frame},
                              expected |-> wfm_args.image,
                              timeout_secs |-> wfm_args.timeout_secs]
                  /\ wfm_pc' = "done"
                  /\ UNCHANGED <<frames_first, match_count, last_pos, res, h_checked>>
             ELSE \E match \in BOOLEAN, position \in Positions :
                  \E r \in {[frame |-> [id |-> Len(h_checked) + 1, time |-> frame_time],
                             match |-> match, position |-> position]} :
                  \E count \in {IF match /\ (match_count = 0 \/ position = last_pos)
                                THEN match_count + 1 ELSE 0} :
                     /\ frames_first' = FALSE
                     /\ res' = {r}
                     /\ h_checked' = Append(h_checked, r)
                     /\ match_count' = count
                     /\ last_pos' = position
                     /\ IF count = wfm_args.consecutive_matches
                        THEN /\ wfm_result' = [kind |-> "return", res |-> {r},
                                               screenshot |-> {}, expected |-> "",
                                               timeout_secs |-> 0]
                             /\ wfm_pc' = "done"
                        ELSE UNCHANGED <<wfm_result, wfm_pc>>
    /\ UNCHANGED <<non_wfm_vars, wfm_args, frames_end_time>>

NextWfm == wait_for_match \/ wait_for_match_no_video \/ wait_for_match_loop

InitWfm == Init /\ ~restart_source_enabled /\ ~source_teardown_eos

SpecWfm == InitWfm /\ [][NextWfm]_vars

\* ========================================================== _build_pyramid
\* An image is its shape [h, w]; cv2.pyrDown gives an image of
\* ((h + 1) / 2, (w + 1) / 2), rounded down.
MaxPyramidSide == 41
MaxPyramidLevels == 4
MinPyramidSide == 20

pyrDown(img) == [h |-> (img.h + 1) \div 2, w |-> (img.w + 1) \div 2]

\* the for loop of _build_pyramid, with `count` iterations left
RECURSIVE _build_pyramid_loop(_, _)
_build_pyramid_loop(pyr, count) ==
    IF count <= 0 THEN pyr
    ELSE IF pyr[Len(pyr)].h < MinPyramidSide \/ pyr[Len(pyr)].w < MinPyramidSide
         THEN pyr
         ELSE _build_pyramid_loop(Append(pyr, pyrDown(pyr[Len(pyr)])), count - 1)

_build_pyramid(img, lv) == _build_pyramid_loop(<<img>>, lv - 1)

build_pyramid ==
    /\ bp_pc = "new"
    /\ pyramid' = _build_pyramid(bp_image, bp_levels)
    /\ bp_pc' = "done"
    /\ UNCHANGED <<display_vars, matching_vars, sink_vars, wait_vars, wfm_vars, press_vars,
                   bp_image, bp_levels, bp_template, template_pyramid, image_pyramid>>

NextPyramid == build_pyramid

\* the calls: any image up to MaxPyramidSide a side, and the levels that
\* _find_matches passes on (pyramid_levels > 0, or the length of a pyramid)
InitPyramid ==
    /\ InitDisplay /\ ~restart_source_enabled /\ ~source_teardown_eos
    /\ MatchIdle /\ MaskIdle /\ SinkIdle /\ WaitIdle /\ WfmIdle /\ PressIdle
    /\ bp_pc = "new"
    /\ bp_image \in [h : 1..MaxPyramidSide, w : 1..MaxPyramidSide]
    /\ bp_levels \in 1..MaxPyramidLevels
    /\ pyramid = <<>>
    /\ bp_template = [h |-> 1, w |-> 1]
    /\ template_pyramid = <<>>
    /\ image_pyramid = <<>>

SpecPyramid == InitPyramid /\ [][NextPyramid]_vars

\* The two pyramids of _find_candidate_matches. The image is the template's
\* size and some more a side (a little, or one or two levels' worth), which
\* is what the size precondition of _find_matches lets through.
MaxExtra == 3

Extras == 0..MaxExtra \cup {MinPyramidSide, 2 * MinPyramidSide}

\* a plausible slip: the image pyramid is built with the configured levels
image_levels_configured(tp, lv) == lv

\* the levels given to the image's pyramid: len(template_pyramid)
image_levels(tp, lv) == Len(tp)

build_pyramids ==
    /\ bp_pc = "new"
    /\ \E tp \in {_build_pyramid(bp_template, bp_levels)} :
          /\ template_pyramid' = tp
          /\ image_pyramid' = _build_pyramid(bp_image, image_levels(tp, bp_levels))
    /\ bp_pc' = "done"
    /\ UNCHANGED <<display_vars, matching_vars, sink_vars, wait_vars, wfm_vars, press_vars,
                   bp_image, bp_levels, bp_template, pyramid>>

NextPyramids == build_pyramids

InitPyramids ==
    /\ InitDisplay /\ ~restart_source_enabled /\ ~source_teardown_eos
    /\ MatchIdle /\ MaskIdle /\ SinkIdle /\ WaitIdle /\ WfmIdle /\ PressIdle
    /\ bp_pc = "new"
    /\ bp_template \in [h : 1..MaxPyramidSide, w : 1..MaxPyramidSide]
    /\ \E dh \in Extras, dw \in Extras :
          bp_image = [h |-> bp_template.h + dh, w |-> bp_template.w + dw]
    /\ bp_levels \in 1..MaxPyramidLevels
    /\ pyramid = <<>>
    /\ template_pyramid = <<>>
    /\ image_pyramid = <<>>

SpecPyramids == InitPyramids /\ [][NextPyramids]_vars

\* ======================================================= press_until_match
\* One step is one iteration of press_until_match's loop: a wait_for_match
\* call, which returns a match, raises MatchTimeout or raises something else
\* (NoVideo), and on MatchTimeout a press or the re-raise. press(key) may
\* raise too. h_pum records the calls made: <<"wait_for_match", outcome>> and
\* <<"press", key>>.
MaxPresses == 3

Keys == {"KEY_OK", "KEY_DOWN"}

non_press_vars == <<display_vars, matching_vars, sink_vars, wait_vars, wfm_vars,
                    pyramid_vars>>

press_until_match ==
    /\ pum_pc = "idle"
    /\ press_calls = 0
    /\ \E key \in Keys, interval_secs \in 1..2, max_presses \in 0..MaxPresses :
          pum_args' = [key |-> key, interval_secs |-> interval_secs,
                       max_presses |-> max_presses]
    /\ pum_i' = 0
    /\ pum_pc' = "loop"
    /\ UNCHANGED <<non_press_vars, pum_result, h_pum, press_calls, press_last, h_control>>

\* a plausible slip: one press too many
may_press_inclusive(i, max_presses) == i <= max_presses

\* press_until_match: if i < max_presses
may_press(i, max_presses) == i < max_presses

press_until_match_loop ==
    /\ pum_pc = "loop"
    /\ \E outcome \in {"match", "MatchTimeout", "NoVideo"} :
       \E calls \in {Append(h_pum, <<"wait_for_match", outcome>>)} :
          IF outcome = "match"
          THEN /\ pum_result' = "return"
               /\ pum_pc' = "done"
               /\ h_pum' = calls
               /\ UNCHANGED pum_i
          ELSE IF outcome # "MatchTimeout"
          THEN /\ pum_result' = outcome
               /\ pum_pc' = "done"
               /\ h_pum' = calls
               /\ UNCHANGED pum_i
          ELSE IF may_press(pum_i, pum_args.max_presses)
          THEN \E pressed \in BOOLEAN :
                  /\ h_pum' = Append(calls, <<"press", pum_args.key>>)
                  /\ IF pressed
                     THEN /\ pum_i' = pum_i + 1
                          /\ UNCHANGED <<pum_pc, pum_result>>
                     ELSE /\ pum_result' = "press failed"
                          /\ pum_pc' = "done"
                          /\ UNCHANGED pum_i
          ELSE /\ pum_result' = "MatchTimeout"
               /\ pum_pc' = "done"
               /\ h_pum' = calls
               /\ UNCHANGED pum_i
    /\ UNCHANGED <<non_press_vars, pum_args, press_calls, press_last, h_control>>

NextPum == press_until_match \/ press_until_match_loop

InitPum == Init /\ ~restart_source_enabled /\ ~source_teardown_eos

SpecPum == InitPum /\ [][NextPum]_vars

\* ======================================================= press and pressing
\* One step is one whole call. `fails` names the operations that raise in it:
\* the remote control's keydown, keyup and press, draw_text before and after,
\* the sleep of a held press, the block held by pressing(); an operation that
\* raises sends nothing. A call's outcome is the events sent to the control,
\* in order, and the exception that leaves the call ("none" if none does).
MaxPressCalls == 2

HoldSecs == {PyNone, 1, 60, 61}
FailPoints == {"keydown", "draw_holding", "held", "keyup", "draw_released", "press"}

Event(ev, key) == [ev |-> ev, key |-> key]

\* the first of `points`, in their order, that is in `fails`; "none" if none is
RECURSIVE FirstFailure(_, _)
FirstFailure(points, fails) ==
    IF points = <<>> THEN "none"
    ELSE IF Head(points) \in fails THEN Head(points)
    ELSE FirstFailure(Tail(points), fails)

\* a plausible slip: the key is released only when nothing went wrong
press_no_finally(key, hold_secs, fails) ==
    IF hold_secs # PyNone /\ hold_secs > 60
    THEN [events |-> <<>>, exc |-> "ValueError"]
    ELSE IF hold_secs = PyNone
    THEN IF "press" \in fails THEN [events |-> <<>>, exc |-> "press"]
         ELSE [events |-> <<Event("press", key)>>,
               exc |-> FirstFailure(<<"draw_released">>, fails)]
    ELSE LET body == FirstFailure(<<"keydown", "draw_holding", "held">>, fails) IN
         IF body # "none"
         THEN [events |-> IF body = "keydown" THEN <<>> ELSE <<Event("keydown", key)>>,
               exc |-> body]
         ELSE [events |-> <<Event("keydown", key)>>
                          \o (IF "keyup" \in fails THEN <<>> ELSE <<Event("keyup", key)>>),
               exc |-> FirstFailure(<<"keyup", "draw_released">>, fails)]

\* DeviceUnderTest.press
press(key, hold_secs, fails) ==
    IF hold_secs # PyNone /\ hold_secs > 60
    THEN [events |-> <<>>, exc |-> "ValueError"]
    ELSE IF hold_secs = PyNone
    THEN \* self._control.press(key), then draw_text
         IF "press" \in fails THEN [events |-> <<>>, exc |-> "press"]
         ELSE [events |-> <<Event("press", key)>>,
               exc |-> FirstFailure(<<"draw_released">>, fails)]
    ELSE \* try: keydown, draw_text, sleep; finally: keyup, draw_text
         LET body == FirstFailure(<<"keydown", "draw_holding", "held">>, fails)
             last == FirstFailure(<<"keyup", "draw_released">>, fails)
         IN  [events |-> (IF "keydown" \in fails THEN <<>> ELSE <<Event("keydown", key)>>)
                         \o <<Event(IF "keyup" \in fails THEN "keyup failed" ELSE "keyup",
                                    key)>>,
              exc |-> IF last # "none" THEN last ELSE body]

\* DeviceUnderTest.pressing, with the block it holds
pressing(key, fails) ==
    LET original == FirstFailure(<<"keydown", "draw_holding", "held">>, fails)
        last == FirstFailure(<<"keyup", "draw_released">>, fails)
    IN  [events |-> (IF "keydown" \in fails THEN <<>> ELSE <<Event("keydown", key)>>)
                    \o <<Event(IF "keyup" \in fails THEN "keyup failed" ELSE "keyup",
                               key)>>,
         exc |-> IF original # "none" THEN original ELSE last]

press_call ==
    /\ pum_pc = "idle"
    /\ press_calls < MaxPressCalls
    /\ \E key \in Keys, hold_secs \in HoldSecs, fails \in SUBSET FailPoints :
       \E out \in {press(key, hold_secs, fails)} :
          /\ press_last' = [op |-> "press", key |-> key, hold_secs |-> hold_secs,
                            fails |-> fails \cap {"keydown", "draw_holding", "held"},
                            events |-> out.events, exc |-> out.exc]
          /\ h_control' = h_control \o out.events
    /\ press_calls' = press_calls + 1
    /\ UNCHANGED <<non_press_vars, pum_pc, pum_args, pum_i, pum_result, h_pum>>

pressing_call ==
    /\ pum_pc = "idle"
    /\ press_calls < MaxPressCalls
    /\ \E key \in Keys, fails \in SUBSET FailPoints :
       \E out \in {pressing(key, fails)} :
          /\ press_last' = [op |-> "pressing", key |-> key, hold_secs |-> PyNone,
                            fails |-> fails \cap {"keydown", "draw_holding", "held"},
                            events |-> out.events, exc |-> out.exc]
          /\ h_control' = h_control \o out.events
    /\ press_calls' = press_calls + 1
    /\ UNCHANGED <<non_press_vars, pum_pc, pum_args, pum_i, pum_result, h_pum>>

NextPress == press_call \/ pressing_call

InitPress == Init /\ ~restart_source_enabled /\ ~source_teardown_eos

SpecPress == InitPress /\ [][NextPress]_vars

\* =================================================================== claims

\* C1: a frame returned by get_frame has a timestamp strictly greater than
\* `since`, whatever the producer thread did in between.
C1_NoStaleFrame ==
    (upc = "gf_done" /\ u_result = "frame") =>
        (last_used_frame.kind = "frame" /\ last_used_frame.time > u_since)

C1_Witness ==
    /\ upc = "gf_done"
    /\ u_result = "frame"
    /\ h_pub_blocked
    /\ last_used_frame.time = u_since + 1

\* C2 as stated: if the cell held no frame after `since` and no error from the
\* call until timeout_secs had elapsed, get_frame ends with NoVideo.
C2_Original ==
    (upc = "gf_done" /\ h_good # "window") => u_result = "NoVideo"

\* C2 amended: every get_frame call terminates, and it ends with NoVideo if the
\* cell held no frame after `since` and no error at any time up to the call's
\* last look at the cell (a frame arriving after the deadline but before that
\* last look is still returned).
C2_Terminates ==
    /\ (InCall ~> (upc = "gf_done"))
    /\ []((upc = "gf_done" /\ h_good = "no") => u_result = "NoVideo")

C2_Witness ==
    /\ upc = "gf_done"
    /\ u_result = "NoVideo"
    /\ h_good = "no"
    /\ last_frame.kind = "frame"

\* C3 as stated: a qualifying frame published while the call is blocked, before
\* its deadline, makes the call return a qualifying frame.
C3_Original ==
    (upc = "gf_done" /\ h_pub_blocked) =>
        (u_result = "frame" /\ last_used_frame.time > u_since)

\* C3 amended: a blocked call never sleeps on while the cell holds a frame
\* after `since` or an error (the publication wakes it), and a call woken by
\* such a publication ends according to what the cell holds when it looks
\* again: that frame if it qualifies, RuntimeError if the cell was overwritten
\* with an error, and NoVideo only if the cell then holds neither.
C3_WokenAndServed ==
    /\ []((upc = "gf_wait" /\ cond_owner # "glib") => ~Good(last_frame, u_since))
    /\ [][(h_pub_blocked /\ upc # "gf_done" /\ upc' = "gf_done") =>
            \/ u_result' = "frame" /\ Qualifies(last_used_frame', u_since)
                                   /\ last_used_frame' = last_frame
            \/ u_result' = "RuntimeError" /\ IsException(last_frame)
            \/ u_result' = "NoVideo" /\ ~Good(last_frame, u_since)]_vars

C3_Witness ==
    /\ upc = "gf_done"
    /\ h_pub_blocked
    /\ u_result = "frame"
    /\ now < u_end_time

\* C4: when get_frame looks at the cell and finds a propagated error, the call
\* ends with RuntimeError: it returns no frame and does not report NoVideo.
C4_ErrorRaised ==
    [][(upc = "gf_check" /\ upc' # "gf_check" /\ IsException(last_frame)) =>
          /\ upc' = "gf_done"
          /\ u_result' = "RuntimeError"
          /\ last_used_frame' = last_used_frame]_vars

C4_Witness ==
    /\ upc = "gf_done"
    /\ u_result = "RuntimeError"
    /\ IsException(last_frame)

\* C5: last_frame is written only by tell_user_thread, with the condition's
\* lock held, and every write is followed by notify_all before the lock is
\* released; get_frame looks at the cell only with the lock held and never
\* writes it; every new sample and every pipeline error goes through
\* tell_user_thread.
C5_LockDiscipline ==
    /\ [](gpc \in {"tell_write", "tell_notify"} => cond_owner = "glib")
    /\ [](upc \in {"gf_check", "gf_time"} => cond_owner = "user")
    /\ [][/\ last_frame' # last_frame =>
                (gpc = "tell_write" /\ cond_owner = "glib"
                 /\ last_frame' = g_item /\ upc' = upc)
          /\ (gpc = "tell_write" /\ gpc' # gpc) =>
                (gpc' = "tell_notify" /\ cond_owner' = "glib")
          /\ (gpc = "tell_notify" /\ gpc' # gpc) => upc' # "gf_wait"
          /\ (gpc = "idle" /\ g_handler' \in {"on_new_sample", "on_error"}) =>
                (gpc' = "tell_acquire"
                 /\ g_item'.kind = (IF g_handler' = "on_error"
                                    THEN "exc" ELSE "frame"))]_vars

C5_Witness ==
    /\ gpc = "tell_notify"
    /\ cond_owner = "glib"
    /\ upc = "gf_wait"
    /\ last_frame = g_item
    /\ IsException(g_item)

\* C6: once __exit__ has set tearing_down, no source pipeline is constructed
\* and none is started.
C6_NoPipelineAfterTeardown ==
    [][tearing_down =>
          \A p \in Pipelines :
              /\ pipe_state[p] = "absent" => pipe_state'[p] = "absent"
              /\ pipe_state'[p] = "PLAYING" => pipe_state[p] = "PLAYING"]_vars

C8_RunningCancels ==
    /\ [](~underrun_timeout.set => TimersFor("restart_source") = {})
    /\ [][(underrun_timeout.set /\ ~underrun_timeout'.set) =>
             /\ glib_timers' = {}
             /\ underrun_timeout' = NoTimeout
             /\ (~tearing_down => PipelineState' = "NORMAL")]_vars
    /\ [][(~underrun_timeout.set /\ underrun_timeout'.set) =>
             /\ Cardinality(TimersFor("restart_source")') = 1
             /\ \A tm \in TimersFor("restart_source")' :
                   /\ tm.due = now + UnderrunDelay
                   /\ tm.id = underrun_timeout'.timeout_id]_vars

C8_Witness ==
    /\ h_window = "cancelled"
    /\ ~underrun_timeout.set
    /\ glib_timers = {}
    /\ ~tearing_down
    /\ PipelineState = "NORMAL"

\* C9 as stated: when the handler of an end-of-stream or of a pipeline error
\* has run and teardown has not begun, the Frame Source is RESTARTING: the
\* pipeline is gone and start_source is scheduled.
C9_Original ==
    [][(g_handler \in {"on_eos", "on_error"} /\ gpc # "idle" /\ gpc' = "idle"
        /\ ~tearing_down') =>
          (source_pipeline' = 0 /\ TimersFor("start_source")' # {})]_vars

\* C9 amended: an end-of-stream handled while teardown has not begun puts the
\* Frame Source in RESTARTING (the old pipeline stopped, source_pipeline None,
\* one start_source timer due after the restart delay); a pipeline error is
\* only handed to the user thread and changes neither pipeline nor timers.
C9_EosRestarts ==
    /\ [][(g_handler = "on_eos" /\ gpc # "idle" /\ gpc' = "idle"
           /\ ~tearing_down') =>
             /\ source_pipeline' = 0
             /\ ~AnyPlaying'
             /\ Cardinality(TimersFor("start_source")') = 1
             /\ \A tm \in TimersFor("start_source")' :
                   tm.due = now + RestartDelay]_vars
    /\ [][(g_handler = "on_error" /\ gpc' # gpc) =>
             UNCHANGED <<source_pipeline, pipe_state, glib_timers,
                         underrun_timeout>>]_vars

C9_Witness ==
    /\ ~restart_source_enabled
    /\ ~tearing_down
    /\ gpc = "idle"
    /\ source_pipeline = 0
    /\ pipe_state[1] = "NULL"
    /\ \E tm \in glib_timers :
          tm.handler = "start_source" /\ tm.due = now + RestartDelay

C11_OneTimerOutstanding ==
    Cardinality(glib_timers) <= 1

\* C12: the results of one _find_matches call are zero or more with
\* matched = TRUE followed by exactly one with matched = FALSE, and then the
\* sequence ends: every result but the latest is a match, nothing is yielded
\* after a non-match, the generator is exhausted only after a non-match, and
\* a caller that keeps asking does reach that end.
C12_PrefixTruthy ==
    /\ [](\A k \in 1..(Len(results) - 1) : results[k].matched)
    /\ [](fm_pc = "done" => (results # <<>> /\ ~results[Len(results)].matched))
    /\ [][(results # <<>> /\ ~results[Len(results)].matched)
             => results' = results]_vars
    /\ <>(fm_pc \in {"done", "error"})

\* two regions of the template's size share a pixel
Overlap(r1, r2) ==
    /\ r1.x < r2.right /\ r2.x < r1.right
    /\ r1.y < r2.bottom /\ r2.y < r1.bottom

\* C13: no two matched results of one _find_matches call overlap: a later
\* match is never within one template extent of an earlier one.
C13_NoOverlap ==
    \A j, k \in 1..Len(results) :
        (j < k /\ results[j].matched /\ results[k].matched)
            => ~Overlap(results[j].region, results[k].region)

\* C14: the results of one _find_matches call come in descending order of
\* confidence: each first_pass_certainty is at most the one before it.
C14_DescendingCertainty ==
    \A k \in 2..Len(results) :
        results[k].first_pass_certainty <= results[k - 1].first_pass_certainty

C14_Witness ==
    /\ fm_pc = "done"
    /\ Len(results) = 3
    /\ results[1].matched /\ results[2].matched /\ ~results[3].matched
    /\ results[1].first_pass_certainty > results[2].first_pass_certainty
    /\ results[2].first_pass_certainty > results[3].first_pass_certainty

\* C15: a result has matched = TRUE only if the first pass matched at level 0
\* with certainty >= match_threshold (unrelaxed) and the second pass found the
\* region clean; with confirm_method "none" matched equals the first-pass
\* outcome; and the first-pass outcome is in the result under its own field,
\* TRUE exactly when the search reached level 0 with certainty >= threshold.
C15_MatchedIffBothPasses ==
    \A k \in 1..Len(results) :
        LET r == results[k]
            pos == <<r.region.x, r.region.y>>
        IN  /\ r.first_pass_matched <=>
                   (level = 0
                    /\ r.first_pass_certainty >= match_parameters.match_threshold)
            /\ r.matched => r.first_pass_matched
            /\ match_parameters.confirm_method = "none"
                   => r.matched = r.first_pass_matched
            /\ (r.first_pass_matched /\ match_parameters.confirm_method # "none")
                   => r.matched = (countNonZero[pos] = "zero")

C15_Witness ==
    /\ match_parameters.confirm_method = "absdiff"
    /\ match_parameters.match_threshold = 8
    /\ levels = 2
    /\ Len(results) = 2
    /\ results[1].matched
    /\ results[2].first_pass_matched
    /\ ~results[2].matched

\* C16: when the template is larger than the frame in either dimension, is
\* empty, is not 3-channel or is not 8-bit, _find_matches yields no result:
\* advancing the generator raises an error.
C16_InvalidTemplateFails ==
    (\/ template.h > image.h
     \/ template.w > image.w
     \/ template.h = 0
     \/ template.w = 0
     \/ template.ndim # 3
     \/ template.channels # 3
     \/ template.dtype # "uint8")
        => /\ results = <<>>
           /\ fm_pc \in {"new", "error"}
           /\ fm_pc = "error" => fm_error # "none"

C16_Witness ==
    /\ fm_pc = "error"
    /\ fm_error = "Template image must be 8-bits per channel"
    /\ template.h = image.h
    /\ template.w < image.w
    /\ results = <<>>

\* C17: for every Mask m, whatever it is backed by and inverted or not, and
\* every shape, (~~m).to_array(shape) is m.to_array(shape): the same array,
\* or for both the ValueError of an image of another size.
C17_DoubleNegation ==
    \A m \in MaskIds, shape \in Shapes :
        LET h1 == Mask_invert(mask_heap, m)
            h2 == Mask_invert(h1, Len(h1))
        IN  to_array(h2, Len(h2), shape).out = to_array(mask_heap, m, shape).out

C17_Witness ==
    /\ Len(mask_heap) = 3
    /\ mask_heap[1].image # None
    /\ mask_heap[1].invert
    /\ ~mask_heap[2].invert
    /\ mask_heap[3].invert
    /\ mask_heap[2].image = mask_heap[1].image
    /\ mask_heap[3].image = mask_heap[1].image
    /\ mask_heap[1].array # None
    /\ mask_heap[3].array = mask_heap[1].array
    /\ \E p \in DOMAIN Get(mask_heap[3].array).data :
          Get(mask_heap[3].array).data[p] = 155

\* the pixels of a frame of this shape that lie inside region r
Covered(r, shape) ==
    {p \in Pixels(shape) : r.x <= p[1] /\ p[1] < r.right /\ r.y <= p[2] /\ p[2] < r.bottom}

\* the buffer that is 255 on the pixels of `set` and 0 elsewhere
Buffer(set, shape) ==
    [shape |-> shape, data |-> [p \in Pixels(shape) |-> IF p \in set THEN 255 ELSE 0]]

\* what a + b and a - b should rasterize to
Expected(op, a, b, shape) ==
    IF op = "+"
    THEN Buffer(Covered(a, shape) \cup Covered(b, shape), shape)
    ELSE Buffer(Covered(a, shape) \ Covered(b, shape), shape)

\* Mask(a) op Mask(b), built from nothing, and its array
MaskOfTwo(op, a, b, shape) ==
    LET h1 == Mask_init(<<>>, FromRegion(a), FALSE)
        h2 == Mask_init(h1, FromRegion(b), FALSE)
        h3 == Mask_binop(h2, op, 1, FromMask(2))
    IN  to_array(h3, Len(h3), shape).out

\* C18: for Regions a and b and every shape, Mask(a) - Mask(b) rasterizes to
\* a's coverage AND NOT b's coverage and Mask(a) + Mask(b) to a's coverage OR
\* b's: both for the expression built from nothing (the inputs of a run never
\* change, so it is evaluated where the run starts) and for every array that
\* a run's to_array has computed for a BinOp mask.
C18_UnionAndDifference ==
    /\ mask_heap = <<>> =>
          \A op \in {"+", "-"} :
              MaskOfTwo(op, region_a, region_b, mask_shape)
                  = Some(Expected(op, region_a, region_b, mask_shape))
    /\ \A m \in MaskIds :
          (mask_heap[m].binop # None /\ mask_heap[m].array # None) =>
              mask_heap[m].array
                  = Some(Expected(Get(mask_heap[m].binop).op, region_a, region_b,
                                  mask_shape))

\* a difference of two overlapping regions has been rasterized, and pixels of
\* a survive outside b
C18_Witness ==
    /\ \E m \in MaskIds :
          /\ mask_heap[m].binop # None
          /\ Get(mask_heap[m].binop).op = "-"
          /\ mask_out.self = m
          /\ mask_out.out # None
          /\ \E p, q \in Pixels(mask_shape) :
                /\ Get(mask_out.out).data[p] = 255
                /\ Get(mask_out.out).data[q] = 0
                /\ q \in Covered(region_a, mask_shape) \cap Covered(region_b, mask_shape)

\* how many of _image, _binop and _region a Mask object has set
FieldsSet(o) ==
    Cardinality({f \in {"image", "binop", "region"} : o[f] # None})

\* C19: every Mask that can be constructed (from an image, a Region, None, a
\* BinOp or another Mask, inverted or not, and by +, - and ~) has exactly one
\* of its image, binop and region fields set.
C19_ExactlyOneField == \A m \in MaskIds : FieldsSet(mask_heap[m]) = 1

\* C20: for a non-inverted Region-backed mask and any shape, to_array returns
\* a buffer that is 255 at exactly the pixels inside both the region and the
\* frame (0, 0, width, height) and 0 everywhere else, also when the region
\* lies partly or wholly outside the frame.
C20_RegionRasterized ==
    /\ mask_heap = <<>> =>
          to_array(Mask_init(<<>>, FromRegion(region_a), FALSE), 1, mask_shape).out
              = Some(Buffer(Covered(region_a, mask_shape), mask_shape))
    /\ \A m \in MaskIds :
          LET o == mask_heap[m]
          IN  (o.region # None /\ ~o.invert /\ o.array # None) =>
                  o.array = Some(Buffer(Covered(Get(o.region), mask_shape), mask_shape))
    /\ ( /\ mask_out.self \in MaskIds
         /\ mask_heap[mask_out.self].region # None
         /\ ~mask_heap[mask_out.self].invert ) =>
          /\ mask_out.out # None
          /\ Get(mask_out.out).shape = mask_shape
          /\ \A p \in Pixels(mask_shape) :
                Get(mask_out.out).data[p] =
                    IF p \in Covered(Get(mask_heap[mask_out.self].region), mask_shape)
                    THEN 255 ELSE 0

\* a region that starts left of the frame and ends inside it has been
\* rasterized: a pixel is covered and another is not
C20_Witness ==
    /\ mask_out.self = 1
    /\ mask_heap[1].region # None
    /\ Get(mask_heap[1].region).x < 0
    /\ Get(mask_heap[1].region).right < mask_shape[2]
    /\ mask_out.out # None
    /\ \E p, q \in Pixels(mask_shape) :
          Get(mask_out.out).data[p] = 255 /\ Get(mask_out.out).data[q] = 0

\* C21: composing masks with +, - or ~ never changes its operands: every Mask
\* that existed before the step has the same fields (image, BinOp, region,
\* invert flag, memoised array) and the same coverage after it; the step only
\* adds objects.
C21_OperandsUnchanged ==
    [][Len(mask_heap') > Len(mask_heap) =>
          \A m \in MaskIds :
              /\ mask_heap'[m] = mask_heap[m]
              /\ \A shape \in Shapes :
                    to_array(mask_heap', m, shape).out = to_array(mask_heap, m, shape).out]_vars

\* a difference was built from a mask that had been rasterized before, and
\* the operand still holds its array while the new mask has none yet
C21_Witness ==
    /\ Len(mask_heap) = 3
    /\ mask_heap[3].binop # None
    /\ Get(mask_heap[3].binop) = BinOp("-", 1, 2)
    /\ mask_heap[1].array # None
    /\ mask_heap[3].array = None

\* the pixels a mask covers in a frame of the shape
CoverageOf(heap, m, shape) ==
    {p \in Pixels(shape) : Get(to_array(heap, m, shape).out).data[p] = 255}

\* C22: the rendering of a mask tree is a valid expression that denotes the
\* same mask: read back with ~ binding tightest and + and - associating to the
\* left, it is an expression, all of the text, and covers the pixels the mask
\* covers.
C22_ReprRoundTrip ==
    mask_repr.self \in MaskIds =>
        LET r == ReadSum(mask_repr.text, 1, mask_shape)
        IN  /\ r.ok
            /\ r.next = Len(mask_repr.text) + 1
            /\ r.val = CoverageOf(mask_heap, mask_repr.self, mask_shape)

\* C23: on each incoming frame on_sample drains every buffered frame older
\* than the latency window: once on_sample has returned, every frame still in
\* the buffer has a timestamp greater than the newest frame's minus 0.5 s,
\* every frame that arrived is in the buffer or was pushed, and the frames
\* were pushed oldest first.
C23_DrainsOlderThanWindow ==
    /\ (sink_upc = "entered" /\ sink_gpc = "idle" /\ sink_arrived > 0) =>
          /\ \A k \in DOMAIN _frames :
                _frames[k].time > sink_last_time - SINK_LATENCY_SECS
          /\ _frames # <<>> /\ _frames[1].id = sink_arrived
          /\ ~h_discarded => _sample_count + Len(_frames) = sink_arrived
    /\ h_in_order
    /\ \A k \in DOMAIN _frames : h_pushed.id < _frames[k].id

\* on_sample has returned after pushing two frames and keeping two
C23_Witness ==
    /\ sink_upc = "entered"
    /\ sink_gpc = "idle"
    /\ _sample_count = 2
    /\ Len(_frames) = 2
    /\ _frames[2].time < _frames[1].time

\* C24: a match-result annotation is drawn on at most one output frame, a
\* frame whose timestamp equals the annotation's, and once drawn it is no
\* longer pending: no annotation is drawn twice.
C24_DrawnAtMostOnce ==
    /\ \A a \in DOMAIN h_drawn :
          /\ Cardinality(h_drawn[a].frames) <= 1
          /\ \A f \in h_drawn[a].frames : f.time = h_drawn[a].time
    /\ \A k \in DOMAIN annotations : h_drawn[annotations[k].id].frames = {}

\* an annotation was drawn on a frame, and a later frame with the same
\* timestamp has been pushed without it
C24_Witness ==
    \E a \in DOMAIN h_drawn :
        /\ h_drawn[a].frames # {}
        /\ h_pushed.time = h_drawn[a].time
        /\ h_pushed \notin h_drawn[a].frames

\* C25 as stated: on shutdown the buffer is drained, an end-of-stream signal
\* is sent downstream, and shutdown completes.
C25_Original ==
    /\ [](sink_upc = "done" => (_frames = <<>> /\ sink_eos = "sent"))
    /\ (sink_upc = "drain" ~> sink_upc = "done")

\* C25: shutdown pushes every buffered frame downstream, also those inside
\* the latency window, and always completes with the pipeline stopped. If at
\* least one frame was ever pushed, end-of-stream is signalled to appsrc, and
\* if appsrc accepts it the event is sent and the acknowledgment awaited for a
\* bounded time; a refusal or a missing acknowledgment is logged. If no frame
\* was ever pushed, no end-of-stream is sent, which is logged too.
C25_ShutdownDrains ==
    /\ [](sink_upc \in {"eos", "wait", "null", "done"} =>
             (_frames = <<>> /\ (~h_discarded => _sample_count = sink_arrived)))
    /\ [](sink_upc = "done" =>
             /\ sink_state = "NULL"
             /\ (sink_eos = "skipped") = (_sample_count = 0)
             /\ sink_eos = "skipped" =>
                   "SinkPipeline teardown: Not sending EOS, no samples sent" \in sink_log
             /\ sink_eos = "failed" => "Sending EOS to sink pipeline failed" \in sink_log
             /\ (sink_eos = "sent" /\ ~received_eos) =>
                   "Timeout waiting for sink EOS" \in sink_log)
    /\ (sink_upc = "drain" ~> sink_upc = "done")

\* shutdown completed although the acknowledgment never came, after draining
\* frames that were inside the latency window
C25_Witness ==
    /\ sink_upc = "done"
    /\ sink_eos = "sent"
    /\ ~received_eos
    /\ _sample_count = sink_arrived
    /\ h_pushed.time = sink_last_time
    /\ sink_arrived >= 2

\* did the k-th call of callable_ meet wait_until's condition: its compared
\* value is truthy and, with stable_secs, has been the same since a call that
\* started at least stable_secs earlier
RunFrom(j, k) == \A m \in j..k : h_calls[m].predicate_value = h_calls[k].predicate_value
Succeeded(k) ==
    /\ Truthy(h_calls[k].predicate_value)
    /\ wu_args.stable_secs # 0 =>
          \E j \in 1..k : RunFrom(j, k) /\ h_calls[k].t - h_calls[j].t >= wu_args.stable_secs

\* C26: wait_until calls callable_ at least once; it goes on while the
\* condition is not met and the timeout has not elapsed; when the timeout
\* elapses without success it returns the last value if that is falsey and
\* None if it is truthy; and it returns a truthy value only when the
\* predicate, and the stability condition if any, held.
C26_TimeoutValue ==
    /\ \A k \in 1..(Len(h_calls) - 1) : ~Succeeded(k) /\ h_calls[k].t < expiry_time
    /\ wu_pc = "done" =>
          LET n == Len(h_calls)
              last == h_calls[n]
          IN  /\ n >= 1
              /\ (wu_result.path = "timeout") = ~Succeeded(n)
              /\ wu_result.path = "timeout" =>
                    /\ last.t >= expiry_time
                    /\ wu_result.value = IF Truthy(last.value) THEN PyNone ELSE last.value
              /\ Truthy(wu_result.value) =>
                    /\ Succeeded(n)
                    /\ Truthy(predicate(wu_args.predicate, wu_result.value))

\* wait_until timed out on a truthy value that failed the predicate and
\* returned None, after more than one call
C26_Witness ==
    /\ wu_pc = "done"
    /\ wu_result = [path |-> "timeout", value |-> PyNone]
    /\ Len(h_calls) >= 2
    /\ h_calls[Len(h_calls)].value = 1
    /\ wu_args.predicate = "is 2"

\* C27: with stable_secs > 0, wait_until returns a value only after the
\* compared value has been truthy and equal across successive calls that span
\* at least stable_secs, and what it returns is the value of the first call of
\* that run, not of the latest.
C27_FirstStableValue ==
    (wu_pc = "done" /\ wu_args.stable_secs > 0 /\ wu_result.path # "timeout") =>
        LET n == Len(h_calls)
            first == CHOOSE j \in 1..n :
                        /\ RunFrom(j, n)
                        /\ j = 1 \/ ~RunFrom(j - 1, n)
        IN  /\ Truthy(h_calls[n].predicate_value)
            /\ h_calls[n].t - h_calls[first].t >= wu_args.stable_secs
            /\ wu_result.value = h_calls[first].value

\* a stable run whose first value differs from its latest has been returned
C27_Witness ==
    /\ wu_pc = "done"
    /\ wu_args.stable_secs > 0
    /\ wu_result.path = "stable"
    /\ wu_result.value # h_calls[Len(h_calls)].value
    /\ Len(h_calls) >= 3

\* C28: when wait_for_match gives up it raises MatchTimeout, and never fails
\* for want of a result to report: the exception carries the frame of the last
\* result checked, the name of the image searched for and the timeout given;
\* at least one frame was checked; the frame that ended the iteration is a
\* later one whose timestamp is past the end of the time budget; and the
\* count of matches stood below consecutive_matches.
C28_MatchTimeout ==
    /\ wfm_result.kind # "UnboundLocalError"
    /\ wfm_result.kind = "MatchTimeout" =>
          /\ h_checked # <<>>
          /\ wfm_result.screenshot = {h_checked[Len(h_checked)].frame}
          /\ wfm_result.expected = wfm_args.image
          /\ wfm_result.timeout_secs = wfm_args.timeout_secs
          /\ Get(frames_timestamp) > frames_end_time
          /\ Get(frames_timestamp) > h_checked[Len(h_checked)].frame.time
          /\ match_count < wfm_args.consecutive_matches

\* wait_for_match gave up after two frames that matched at different positions
C28_Witness ==
    /\ wfm_result.kind = "MatchTimeout"
    /\ wfm_args.consecutive_matches = 2
    /\ Len(h_checked) = 2
    /\ h_checked[1].match
    /\ h_checked[2].match
    /\ wfm_result.screenshot = {h_checked[2].frame}

\* C29: _find_matches terminates: once called, with whatever image, template
\* and match parameters, and a caller that keeps asking for the next result,
\* the generator comes to its end (or raises) after finitely many results.
C29_Terminates == (fm_pc = "new") ~> (fm_pc \in {"done", "error"})

\* C30: _build_pyramid(image, levels) returns at most `levels` images; level
\* 0 is the input and each later level is the 2x downsample of the one before
\* it; and no level other than level 0 has a height or width below 20.
C30_Pyramid ==
    bp_pc = "done" =>
        /\ Len(pyramid) <= bp_levels
        /\ pyramid[1] = bp_image
        /\ \A k \in 2..Len(pyramid) : pyramid[k] = pyrDown(pyramid[k - 1])
        /\ \A k \in 2..Len(pyramid) : pyramid[k].h >= 20 /\ pyramid[k].w >= 20

\* C31: for a frame at least as large as the template and any configured
\* level count, the frame's pyramid and the template's pyramid have the same
\* length, and at every level the frame's image is at least as high and as
\* wide as the template's, so that the heatmap of that level has a cell.
C31_PyramidsAgree ==
    bp_pc = "done" /\ template_pyramid # <<>> =>
        /\ Len(image_pyramid) = Len(template_pyramid)
        /\ \A k \in 1..Len(template_pyramid) :
              /\ image_pyramid[k].h >= template_pyramid[k].h
              /\ image_pyramid[k].w >= template_pyramid[k].w
              /\ image_pyramid[k].h - template_pyramid[k].h + 1 >= 1
              /\ image_pyramid[k].w - template_pyramid[k].w + 1 >= 1

\* three levels, of a frame larger than the template whose coarsest levels
\* are of one size; and the template stopped short of the configured levels
C31_Witness ==
    /\ bp_pc = "done"
    /\ Len(template_pyramid) = 3
    /\ bp_levels = 4
    /\ bp_image.h > bp_template.h
    /\ image_pyramid[3] = template_pyramid[3]
    /\ image_pyramid[2].h >= 20

\* C32: restart_source runs only while a source pipeline exists: whenever it
\* is about to stop the pipeline, source_pipeline is not None.
C32_RestartHasPipeline == gpc = "rs_stop" => source_pipeline # 0

\* C33: when start_source, with restart-on-loss enabled, comes to re-arm
\* underrun_timeout, that field holds a timer object.
C33_RearmHasTimer ==
    (gpc = "ss_rearm" /\ restart_source_enabled) => underrun_timeout.set

\* C34: no propagated error is lost: a get_frame call during whose wait a
\* pipeline error was written to the latest-frame cell ends by raising it.
C34_ErrorNotLost ==
    (upc = "gf_done" /\ h_err_blocked) => u_result = "RuntimeError"

\* C35: every frame handed to on_sample is pushed downstream exactly once
\* and in arrival order: none leaves the buffer without a push, the frames
\* pushed and the frames buffered are together the frames that arrived, and
\* once the shutdown drain is over every frame has been pushed.
C35_EveryFramePushed ==
    /\ ~h_discarded
    /\ h_in_order
    /\ _sample_count + Len(_frames) = sink_arrived
    /\ sink_upc \notin {"new", "entered", "drain"} => _sample_count = sink_arrived

\* C36: without the old threading behaviour, the frames yielded by one
\* frames() iteration have strictly increasing timestamps: no frame is
\* yielded twice and no older frame follows a newer one.
C36_IncreasingTimestamps ==
    ~wfm_args.use_old_threading_behaviour =>
        \A j, k \in 1..Len(h_checked) :
            j < k => h_checked[j].frame.time < h_checked[k].frame.time

\* three frames were yielded, the first of them from before the call
C36_Witness ==
    /\ ~wfm_args.use_old_threading_behaviour
    /\ Len(h_checked) = 3
    /\ h_checked[1].frame.time = 1
    /\ wfm_pc = "loop"

\* the N frames up to the k-th checked all matched, at one position
MatchedRun(k, n) ==
    /\ k >= n
    /\ \A j \in (k - n + 1)..k :
          h_checked[j].match /\ h_checked[j].position = h_checked[k].position

\* C37: wait_for_match(consecutive_matches=N) returns exactly when the N most
\* recent frames all matched at the same position, and at the first frame
\* where that is so: a result returned is the last of such a run and the
\* first to be one, and while it goes on, or when it gives up, no frame so
\* far was the last of such a run.
C37_ConsecutiveMatches ==
    /\ wfm_result.kind = "return" =>
          /\ MatchedRun(Len(h_checked), wfm_args.consecutive_matches)
          /\ wfm_result.res = {h_checked[Len(h_checked)]}
          /\ \A k \in 1..(Len(h_checked) - 1) :
                ~MatchedRun(k, wfm_args.consecutive_matches)
    /\ wfm_result.kind \in {"none", "MatchTimeout"} =>
          \A k \in 1..Len(h_checked) : ~MatchedRun(k, wfm_args.consecutive_matches)

\* the calls of one kind in the history of press_until_match
PumCalls(kind) == {k \in 1..Len(h_pum) : h_pum[k][1] = kind}

\* C38: press_until_match presses the key at most max_presses times and
\* calls wait_for_match at most max_presses + 1 times; calls alternate,
\* wait_for_match first, and every press follows a MatchTimeout and is of the
\* key given; a successful match is returned at once, with no press after
\* it; and MatchTimeout is raised exactly when max_presses presses were made
\* and each wait_for_match call, the one after the last press too, timed out.
C38_PressUntilMatch ==
    /\ Cardinality(PumCalls("press")) <= pum_args.max_presses
    /\ Cardinality(PumCalls("wait_for_match")) <= pum_args.max_presses + 1
    /\ \A k \in 1..Len(h_pum) :
          IF k % 2 = 1
          THEN h_pum[k][1] = "wait_for_match"
          ELSE h_pum[k] = <<"press", pum_args.key>>
                /\ h_pum[k - 1] = <<"wait_for_match", "MatchTimeout">>
    /\ \A k \in 1..Len(h_pum) :
          h_pum[k] = <<"wait_for_match", "match">> =>
              k = Len(h_pum) /\ pum_result = "return"
    /\ pum_result = "return" => h_pum[Len(h_pum)] = <<"wait_for_match", "match">>
    /\ pum_result = "MatchTimeout" <=>
          /\ Cardinality(PumCalls("press")) = pum_args.max_presses
          /\ Cardinality(PumCalls("wait_for_match")) = pum_args.max_presses + 1
          /\ h_pum[Len(h_pum)] = <<"wait_for_match", "MatchTimeout">>
          /\ pum_pc = "done"
    /\ (pum_pc = "loop" /\ h_pum # <<>>) =>
          /\ h_pum[Len(h_pum)][1] = "press"
          /\ pum_i = Cardinality(PumCalls("press"))

\* two presses were allowed and made, and the third wait_for_match timed out
C38_Witness ==
    /\ pum_result = "MatchTimeout"
    /\ pum_args.max_presses = 2
    /\ Len(h_pum) = 5

\* a key-up for the key was asked of the control, whether or not it succeeded
IsKeyUp(e, key) == e.ev \in {"keyup", "keyup failed"} /\ e.key = key

\* C39: every key-down sent by press(key, hold_secs=...) or pressing() is
\* followed by a key-up for the same key before any other key-down, whatever
\* raises meanwhile; in pressing() an exception from the held block is the
\* one propagated, also when the key-up fails; and press with hold_secs > 60
\* fails with ValueError having sent nothing.
C39_KeyUpFollows ==
    /\ \A k \in 1..Len(h_control) :
          h_control[k].ev = "keydown" =>
              /\ k < Len(h_control)
              /\ IsKeyUp(h_control[k + 1], h_control[k].key)
    /\ (press_last.op = "pressing" /\ press_last.fails = {"held"}) =>
          press_last.exc = "held"
    /\ (press_last.op = "press" /\ press_last.hold_secs > 60) =>
          press_last.exc = "ValueError" /\ press_last.events = <<>>

\* pressing(): the held block raised and then the key-up failed
C39_Witness ==
    /\ press_last.op = "pressing"
    /\ press_last.exc = "held"
    /\ press_last.events = <<Event("keydown", "KEY_OK"), Event("keyup failed", "KEY_OK")>>
    /\ press_calls = 2
    /\ h_control[1].ev = "keydown"
    /\ h_control[2].ev = "keyup"

====
